---- MODULE Spec2Model ----
(***************************************************************************)
(* Agent session and streaming engine of the FlyOS python mock drones:     *)
(* ProductionMockDrone (drone_simulator_prod.py) and                       *)
(* OptimizedProductionDrone (drone_simulator_optimized.py).                *)
(*                                                                         *)
(* One agent is modelled.  Every coroutine is cut at its await points:     *)
(* one action is the code that runs between two suspensions.  The channel  *)
(* (python-socketio client) is the environment: it opens, drops and        *)
(* reconnects, delivers the server's events and may make an emission       *)
(* raise.  Emission errors are followed where the code handles them (the   *)
(* try blocks of the producers and of disconnect()).                       *)
(***************************************************************************)
EXTENDS Integers, Sequences, FiniteSets, TLC

\* ---------------------------------------------------------------- bounds
MaxConnects == 2   \* connect() calls of one agent
MaxTasks == 8      \* producer tasks self.tasks may come to hold
MaxReg == 2        \* registration messages not yet answered by the server
MaxFaults == 1     \* emissions the channel lets raise while it is open
MaxCmds == 2       \* command messages the agent receives
MaxLandings == 2   \* precision landings started
MaxAborts == 1     \* precision landing aborts that emit their event
MaxSeq == 2        \* value a sequence counter may come to hold
MaxFps == 10       \* config.camera_fps, in frames per second
MaxQueue == 6      \* queueSize a camera_frame_ack may report
MaxSleep == 11     \* longest time the camera loop's sleep takes, in ms
Horizon == 300     \* time the camera loop is followed for, in ms
StartTime == 5000  \* time.time() when the agent is constructed, in ms
MaxFrames == 61    \* frames of one camera the encoder is followed for
MaxSamples == 5    \* entries of self.latency_measurements
MaxAcks == 2       \* acknowledgments followed field by field
MaxDrones == 7     \* num_drones of a fleet that is started in batches
MaxBatch == 3      \* batch_size of start_drone_batch()
MaxFleet == 4      \* num_drones of a fleet that is cleaned up
MaxOffers == 1     \* webrtc_request_offer events the agent receives

\* ------------------------------------------------------- program constants
max_wait == 10     \* bounded wait for the acknowledgment, in run-loop periods
None == 0          \* self.session_token = None: no token is held
busy_wait == 10    \* await asyncio.sleep(0.010) of the camera loop, in ms
mock_frames == 100 \* frame_count < 100 of mock_camera_stream's loop test

ProductionMockDrone == "ProductionMockDrone"
OptimizedProductionDrone == "OptimizedProductionDrone"
ProductionWebRTCDrone == "ProductionWebRTCDrone"
MockDrone == "MockDrone"
ProductionMockDroneWithCamera == "ProductionMockDroneWithCamera"
MultiDroneSimulator == "MultiDroneSimulator"
MultiDroneProductionLatencySimulator == "MultiDroneProductionLatencySimulator"
Simulators == {MultiDroneSimulator, MultiDroneProductionLatencySimulator}
Classes == {ProductionMockDrone, OptimizedProductionDrone}

Cameras == <<"front", "bottom">>
CameraSet == {"front", "bottom"}

\* the keys of self.sequence_counters, and the streams whose payload carries
\* its counter as sequence_id
CounterKeys == {"telemetry", "camera", "webrtc", "command", "heartbeat"}
SequencedKinds == {"telemetry", "heartbeat"}

VARIABLES
  cls,                       \* the agent class that was constructed
  enable_camera_streaming,   \* config.enable_camera_streaming
  enable_latency_measurement,\* config.enable_latency_measurement
  enable_webrtc,             \* config.enable_webrtc
  conn_pc,                   \* position of connect(): idle, discover, register, open
  conn_steps,                \* the steps connect() performed in its current call
  n_connect,                 \* connect() calls so far
  session_token,             \* self.session_token
  channel,                   \* the socket: closed or open
  will_reconnect,            \* the client library is reconnecting by itself
  connect_event,             \* a 'connect' event waits for its handler
  reg_inflight,              \* drone_register_real messages not yet answered
  registered,                \* self.registered
  connected,                 \* self.state.connected
  tasks,                     \* self.tasks: the producer tasks, in creation order
  camera_streams_active,     \* self.camera_streams_active
  stops_emitted,             \* camera_stream_stop notifications sent, per camera
  faults,                    \* emissions that raised on an open channel
  disc_pc,                   \* position of disconnect(): idle, stop_front, stop_bottom
  disc_returned,             \* a disconnect() call has returned since the last connect()
  waited,                    \* run-loop periods spent waiting for the acknowledgment
  handlers,                  \* the handle_command() calls, in order of arrival
  armed,                     \* self.state.armed
  flight_mode,               \* self.state.flight_mode
  altitude_relative,         \* self.state.altitude_relative
  responses,                 \* the command_response emissions, in order
  command_measurements,      \* 'command' entries of self.latency_measurements
  landings,                  \* the start_precision_landing() calls, in order
  precision_landing_active,  \* self.precision_landing_active (MockDrone)
  progress,                  \* the precision_land_real emissions, in order
  aborting,                  \* abort_precision_landing() calls inside their emission
  descents,                  \* times altitude_relative was multiplied by 0.7
  sequence_counters,         \* self.sequence_counters
  camera_frame_counter,      \* self.camera_frame_counter
  frame_sequence,            \* self.frame_sequence
  emitted,                   \* the sequence numbers each stream has carried, in order
  camera_fps,                \* config.camera_fps
  frame_queue_status,        \* self.frame_queue_status
  adaptive_interval,         \* queue_size and adaptive_interval of the camera loop, per camera
  camera_performance_metrics,\* self.camera_performance_metrics
  now,                       \* time.time(), in ms
  last_frame_time,           \* self.last_frame_time, in ms
  current_time,              \* current_time of each camera task at its last send
  last_sent,                 \* the time of the last send of each camera
  gap,                       \* time between the last two sends of each camera
  frame,                     \* the frame generate_realistic_binary_frame() returned last
  latency_measurements,      \* self.latency_measurements
  stats,                     \* what the last statistics call returned
  pct,                       \* the last percentile() call and what it returned
  acks,                      \* the acknowledgments followed field by field, in order
  simulator,                 \* the fleet orchestrator class, none without a fleet
  num_drones,                \* len(self.drones)
  batch_size,                \* batch_size of start_drone_batch()
  start_pc,                  \* position of start_drone_batch()
  batch_i,                   \* i of start_drone_batch()'s loop
  batch_j,                   \* sleeps done between the connections of a batch
  fleet_log,                 \* batches started and sleeps begun, in order
  drone_registered,          \* drone.registered of each drone of the fleet
  cleanup_pc,                \* position of cleanup(): idle, gather, completed
  cleanup_tasks,             \* cleanup_tasks: the drones, in order
  disconnects,               \* the disconnect() task of each drone of the fleet
  token_lost,                \* the channel was lost since self.session_token was last stored
  offers,                    \* the handle_webrtc_offer_request() calls, in order, and the stream each started
  recorded,                  \* sequence_id of each entry of self.latency_measurements
  peer_connection            \* self.pc of ProductionWebRTCDrone

configVars == <<cls, enable_camera_streaming, enable_latency_measurement,
                enable_webrtc>>
connVars == <<conn_pc, conn_steps, n_connect>>
chanVars == <<channel, will_reconnect, connect_event, reg_inflight>>
sessVars == <<registered, connected>>
streamVars == <<tasks, camera_streams_active>>
discVars == <<disc_pc, disc_returned>>
cmdVars == <<handlers, armed, flight_mode, altitude_relative, responses,
             command_measurements>>
landVars == <<landings, precision_landing_active, progress, aborting, descents>>

seqVars == <<sequence_counters, camera_frame_counter, frame_sequence, emitted>>
paceVars == <<camera_fps, frame_queue_status, adaptive_interval,
              camera_performance_metrics>>
clockVars == <<now, last_frame_time, current_time, last_sent, gap>>
statVars == <<latency_measurements, stats, pct, acks>>
batchVars == <<simulator, num_drones, batch_size, start_pc, batch_i, batch_j,
               fleet_log>>
cleanupVars == <<drone_registered, cleanup_pc, cleanup_tasks, disconnects>>
fleetVars == <<batchVars, cleanupVars>>

\* the variables each engine leaves alone
besideLand == <<seqVars, paceVars, clockVars, frame, statVars, fleetVars,
                  token_lost,
                  offers,
                  recorded,
                  peer_connection>>
besideStreams == <<landVars, frame, statVars, fleetVars,
                  token_lost,
                  offers,
                  recorded,
                  peer_connection>>
besidePace == <<landVars, seqVars, frame, statVars, fleetVars,
                  token_lost,
                  offers,
                  recorded,
                  peer_connection>>
besideFrame == <<landVars, paceVars, clockVars, statVars, fleetVars,
                  token_lost,
                  offers,
                  recorded,
                  peer_connection>>
besideStats == <<landVars, seqVars, paceVars, clockVars, frame, fleetVars,
                  token_lost,
                  offers,
                  recorded,
                  peer_connection>>
besideFleet == <<landVars, seqVars, paceVars, clockVars, frame, statVars,
                 token_lost,
                  offers,
                  recorded,
                  peer_connection>>
besideLoss == <<landVars, seqVars, paceVars, clockVars, frame, statVars,
                fleetVars,
                  offers,
                  recorded,
                  peer_connection>>
besideOffers == <<landVars, seqVars, paceVars, clockVars, frame, statVars,
               fleetVars, token_lost,
                  recorded,
                  peer_connection>>
besideRecorded == <<landVars, seqVars, paceVars, clockVars, frame, statVars,
               fleetVars, token_lost,
                  offers,
                  peer_connection>>
besideWebRTC == <<landVars, seqVars, paceVars, clockVars, frame, statVars,
               fleetVars, token_lost,
                  offers,
                  recorded>>

\* the variables of the engines beside the session and the dispatcher
engineVars == <<landVars, seqVars, paceVars, clockVars, frame, statVars,
               fleetVars, token_lost,
                  offers,
                  recorded,
                  peer_connection>>

\* the variables of the session
sessionVars == <<configVars, connVars, session_token, chanVars, sessVars,
                 streamVars, stops_emitted, faults, discVars, waited>>

vars == <<configVars, connVars, session_token, chanVars, sessVars, streamVars,
          stops_emitted, faults, discVars, waited, cmdVars, engineVars>>

\* ---------------------------------------------------------------- helpers
\* no statistics were asked for since the last measurement
NoStats == [by |-> "none", value |-> <<>>]

\* percentile() was not called since the last measurement
NoCall == [p |-> 0, data |-> <<>>, value |-> <<>>]

DeadPcs == {"done", "cancelled"}

Live(t) == t.pc \notin DeadPcs

LiveTasks == {i \in 1..Len(tasks) : Live(tasks[i])}

\* the session is waiting for registration_success / registration_failed
Awaiting(inflight, reg, chan) == inflight > 0 /\ ~reg /\ chan = "open"

AwaitingAck == Awaiting(reg_inflight, registered, channel)

\* what the channel can do with an emission made by `who` inside a try
\* block: deliver it, raise, or (closed channel, depending on the client
\* library) swallow it
EmitOutcomes(who) ==
  IF channel = "open"
    THEN {"ok"} \cup (IF faults < MaxFaults THEN {"raise"} ELSE {})
    ELSE {"raise", "dropped"}

\* an emission outside every try block: delivered on an open channel; on a
\* closed one it raises or is swallowed
BareOutcomes == IF channel = "open" THEN {"ok"} ELSE {"raise", "dropped"}

\* the emissions that raised on an open channel, after this one by `who`
Logged(who, outcome) ==
  IF outcome = "raise" /\ channel = "open" THEN faults + 1 ELSE faults

\* ------------------------------------------------------------------- Init
\* _init_camera_metrics(): the metrics of one camera (the byte counts and
\* the generation time are left aside)
_init_camera_metrics ==
  [frames_sent |-> 0, frames_skipped |-> 0, compression_ratio |-> 1,
   last_ack_time |-> 0]

\* a fleet orchestrator after __init__: self.drones = [] (none: no
\* orchestrator, the agent is run by itself)
Orchestrated(sim, drones, size) ==
  /\ simulator = sim
  /\ num_drones = drones
  /\ batch_size = size
  /\ start_pc = "idle"
  /\ batch_i = 0
  /\ batch_j = 0
  /\ fleet_log = <<>>
  /\ drone_registered = [d \in 1..drones |-> FALSE]
  /\ cleanup_pc = "idle"
  /\ cleanup_tasks = <<>>
  /\ disconnects = [d \in 1..drones |-> "none"]

\* the session of an agent after __init__: not connected, no token, no task
Unconnected ==
  /\ conn_pc = "idle"
  /\ conn_steps = <<>>
  /\ n_connect = 0
  /\ session_token = None
  /\ channel = "closed"
  /\ will_reconnect = FALSE
  /\ connect_event = FALSE
  /\ reg_inflight = 0
  /\ registered = FALSE
  /\ connected = FALSE
  /\ tasks = <<>>
  /\ camera_streams_active = [c \in CameraSet |-> FALSE]
  /\ stops_emitted = [c \in CameraSet |-> 0]
  /\ faults = 0
  /\ disc_pc = "idle"
  /\ disc_returned = FALSE
  /\ waited = 0

\* the configuration and the engines of an agent of class klass after
\* __init__, latency being config.enable_latency_measurement and fps
\* config.camera_fps
Fields(klass, latency, fps) ==
  /\ cls = klass
  /\ enable_camera_streaming = (klass = OptimizedProductionDrone)
  /\ enable_latency_measurement = latency
  /\ enable_webrtc = TRUE
  /\ handlers = <<>>
  /\ armed = TRUE
  /\ flight_mode = "AUTO"
  /\ altitude_relative = 100
  /\ responses = <<>>
  /\ command_measurements = 0
  /\ landings = <<>>
  /\ precision_landing_active = FALSE
  /\ progress = <<>>
  /\ aborting = 0
  /\ descents = 0
  /\ sequence_counters = [k \in CounterKeys |-> 0]
  /\ camera_frame_counter = [c \in CameraSet |-> 0]
  /\ frame_sequence = 0
  /\ emitted = [s \in SequencedKinds \cup CameraSet |-> <<>>]
  /\ camera_fps = fps
  /\ frame_queue_status = [c \in CameraSet |-> 0]
  /\ adaptive_interval = [c \in CameraSet |-> <<>>]
  /\ camera_performance_metrics = [c \in CameraSet |-> _init_camera_metrics]
  /\ now = StartTime
  /\ last_frame_time = [c \in CameraSet |-> 0]
  /\ current_time = <<>>
  /\ last_sent = [c \in CameraSet |-> 0]
  /\ gap = <<>>
  /\ frame = [camera |-> "none", frame_number |-> 0, frame_type |-> "none",
              header |-> <<>>]
  /\ latency_measurements = <<>>
  /\ stats = NoStats
  /\ pct = NoCall
  /\ acks = <<>>
  /\ token_lost = FALSE
  /\ offers = <<>>
  /\ recorded = <<>>
  /\ peer_connection = "None"

\* the agent of class klass after __init__
Agent(klass, latency, fps) ==
  /\ Fields(klass, latency, fps)
  /\ Unconnected

\* the agent run by itself
Configured(klass, latency, fps) ==
  /\ Agent(klass, latency, fps)
  /\ Orchestrated("none", 0, 1)

\* the agent with the camera rate DroneConfig has by default
Constructed(klass, latency) == Configured(klass, latency, 30)

Init == \E klass \in Classes : Constructed(klass, TRUE)

\* ------------------------------------------------------------- connect()
\* connect() is entered (run(), test_reconnection): the first step it awaits.
\* OptimizedProductionDrone.connect() and ProductionWebRTCDrone.connect()
\* open the channel directly.
ConnectCall ==
  /\ conn_pc = "idle"
  /\ disc_pc = "idle"
  /\ channel = "closed"
  /\ ~will_reconnect
  /\ n_connect < MaxConnects
  /\ n_connect' = n_connect + 1
  /\ conn_steps' = <<>>
  /\ conn_pc' = IF cls \in {OptimizedProductionDrone, ProductionWebRTCDrone}
                  THEN "open" ELSE "discover"
  /\ disc_returned' = FALSE
  /\ UNCHANGED <<cmdVars, engineVars, configVars, session_token, chanVars, sessVars, streamVars,
                 stops_emitted, faults, disc_pc, waited>>

\* a connect() that does not test what its steps return
connect_next_unchecked(op, ok) ==
  CASE op = "discover" -> "register"
    [] op = "register" -> "open"
    [] OTHER -> "idle"

\* connect(): where it goes once the step op returned ok; False ends the call
connect_next(op, ok) ==
  IF ~ok THEN "idle"
  ELSE CASE op = "discover" -> "register"
         [] op = "register" -> "open"
         [] OTHER -> "idle"

\* discover_server() answered: True on HTTP 200, False otherwise
discover_server(ok) ==
  /\ conn_pc = "discover"
  /\ conn_steps' = Append(conn_steps, [op |-> "discover", ok |-> ok])
  /\ conn_pc' = connect_next("discover", ok)
  /\ UNCHANGED <<cmdVars, engineVars, configVars, n_connect, session_token, chanVars, sessVars,
                 streamVars, stops_emitted, faults, discVars, waited>>

\* register_with_server() answered: on HTTP 200 the session token is stored
register_with_server(ok) ==
  /\ conn_pc = "register"
  /\ conn_steps' = Append(conn_steps, [op |-> "register", ok |-> ok])
  /\ session_token' = IF ok THEN n_connect ELSE session_token
  /\ token_lost' = IF ok THEN FALSE ELSE token_lost
  /\ conn_pc' = connect_next("register", ok)
  /\ UNCHANGED <<cmdVars, besideLoss, configVars, n_connect, chanVars, sessVars, streamVars,
                 stops_emitted, faults, discVars, waited>>

\* sio.connect() returned (channel open, 'connect' event pending) or raised
sio_connect(ok) ==
  /\ conn_pc = "open"
  /\ conn_steps' = Append(conn_steps, [op |-> "open", ok |-> ok])
  /\ conn_pc' = connect_next("open", ok)
  /\ channel' = IF ok THEN "open" ELSE "closed"
  /\ connect_event' = ok
  /\ UNCHANGED <<cmdVars, engineVars, configVars, n_connect, session_token, will_reconnect,
                 reg_inflight, sessVars, streamVars, stops_emitted, faults,
                 discVars, waited>>

\* ------------------------------------------------- session registration
\* a register_drone() that takes the emission for the acknowledgment
registered_on_emit == TRUE

\* self.registered once register_drone() has returned
registered_after_register_drone == registered

\* register_drone(): emits drone_register_real and returns
register_drone ==
  /\ channel = "open"
  /\ reg_inflight < MaxReg
  /\ reg_inflight' = reg_inflight + 1
  /\ registered' = registered_after_register_drone
  /\ waited' = 0
  /\ UNCHANGED <<cmdVars, engineVars, configVars, connVars, session_token, channel, will_reconnect,
                 connected, streamVars, stops_emitted, faults, discVars>>

\* the 'connect' event handler: await self.register_drone()
on_connect ==
  /\ connect_event
  /\ connect_event' = FALSE
  /\ register_drone

\* register_drone() called by the driver (test_connection_flow, step 4)
register_drone_call ==
  /\ ~connect_event
  /\ conn_pc = "idle"
  /\ disc_pc = "idle"
  /\ UNCHANGED connect_event
  /\ register_drone

\* the producer tasks start_data_streams() creates, in creation order
NewTasks ==
  <<[kind |-> "telemetry", pc |-> "sleep"],
    [kind |-> "heartbeat", pc |-> "sleep"],
    [kind |-> "mavros", pc |-> "sleep"],
    [kind |-> "animate", pc |-> "sleep"]>>
  \o (IF cls = OptimizedProductionDrone /\ enable_camera_streaming
        THEN <<[kind |-> "camera", pc |-> "init"]>>
        ELSE <<>>)

\* self.tasks has room for one more launch of the producer set
CanStart == Len(tasks) + Len(NewTasks) <= MaxTasks

\* start_data_streams(): self.tasks afterwards, reg being self.registered
start_data_streams(reg) ==
  IF ~reg THEN tasks ELSE tasks \o NewTasks

\* the session of an agent whose connect() returned True, whose 'connect'
\* handler registered, and whose 'registration_success' handler ran twice
\* (register_drone() was called once more, as test_connection_flow does in
\* step 4, or the server repeated the event): each run called
\* start_data_streams(); the producers were started twice and none has run
\* yet
StartedTwice ==
  /\ conn_pc = "idle"
  /\ conn_steps = <<[op |-> "open", ok |-> TRUE]>>
  /\ n_connect = 1
  /\ session_token = None
  /\ channel = "open"
  /\ will_reconnect = FALSE
  /\ connect_event = FALSE
  /\ reg_inflight = 0
  /\ registered = TRUE
  /\ connected = TRUE
  /\ tasks = NewTasks \o NewTasks
  /\ camera_streams_active = [c \in CameraSet |-> FALSE]
  /\ stops_emitted = [c \in CameraSet |-> 0]
  /\ faults = 0
  /\ disc_pc = "idle"
  /\ disc_returned = FALSE
  /\ waited = 0

\* the 'registration_success' event handler, as far as the session goes
registration_accepted ==
  /\ channel = "open"
  /\ reg_inflight > 0
  /\ CanStart
  /\ reg_inflight' = reg_inflight - 1
  /\ registered' = TRUE
  /\ connected' = TRUE
  /\ tasks' = start_data_streams(TRUE)
  /\ waited' = 0
  /\ UNCHANGED <<cmdVars, connVars, session_token, channel, will_reconnect,
                 connect_event, camera_streams_active, stops_emitted, faults,
                 discVars>>

\* the 'registration_success' event handler
registration_success ==
  /\ registration_accepted
  /\ UNCHANGED <<engineVars, configVars>>

\* what the construction of the peer connection may do: return or raise
SetupOutcomes == {"ok", "raise"}

\* setup_real_webrtc(): the peer connection is created inside the try
\* block; when that raises, the except clause logs the error and sets
\* self.config.enable_webrtc = False
setup_real_webrtc(outcome) ==
  /\ outcome \in SetupOutcomes
  /\ IF outcome = "raise"
       THEN /\ enable_webrtc' = FALSE
            /\ UNCHANGED peer_connection
       ELSE /\ peer_connection' = "RTCPeerConnection"
            /\ UNCHANGED enable_webrtc

\* the 'registration_success' event handler of ProductionWebRTCDrone: with
\* data.get('webrtcSupported') and config.enable_webrtc it calls
\* setup_real_webrtc() before start_data_streams()
registration_success_webrtc(webrtcSupported, outcome) ==
  /\ cls = ProductionWebRTCDrone
  /\ registration_accepted
  /\ IF webrtcSupported /\ enable_webrtc
       THEN setup_real_webrtc(outcome)
       ELSE outcome = "ok" /\ UNCHANGED <<enable_webrtc, peer_connection>>
  /\ UNCHANGED <<cls, enable_camera_streaming, enable_latency_measurement,
                 besideWebRTC>>

\* run() of ProductionWebRTCDrone, once a second: with config.enable_webrtc
\* and a peer connection whose connectionState is "failed" it calls
\* setup_real_webrtc() again
webrtc_recovery(connectionState, outcome) ==
  /\ cls = ProductionWebRTCDrone
  /\ conn_pc = "idle"
  /\ disc_pc = "idle"
  /\ enable_webrtc
  /\ peer_connection # "None"
  /\ connectionState = "failed"
  /\ setup_real_webrtc(outcome)
  /\ UNCHANGED <<cls, enable_camera_streaming, enable_latency_measurement,
                 cmdVars, connVars, session_token, chanVars, sessVars,
                 streamVars, stops_emitted, faults, discVars, waited,
                 besideWebRTC>>

\* a 'registration_failed' handler that marks the agent registered
registered_on_rejection == TRUE

\* self.registered once the 'registration_failed' handler has run
registered_after_registration_failed == registered

\* self.tasks once the 'registration_failed' handler has run
tasks_after_registration_failed == tasks

\* the 'registration_failed' event handler: it logs the rejection
registration_failed ==
  /\ channel = "open"
  /\ reg_inflight > 0
  /\ reg_inflight' = reg_inflight - 1
  /\ registered' = registered_after_registration_failed
  /\ tasks' = tasks_after_registration_failed
  /\ waited' = IF Awaiting(reg_inflight - 1, registered', channel)
                 THEN waited ELSE 0
  /\ UNCHANGED <<cmdVars, engineVars, configVars, connVars, session_token, channel, will_reconnect,
                 connect_event, connected, camera_streams_active, stops_emitted,
                 faults, discVars>>

\* start_data_streams() called by the driver (test_connection_flow, step 5)
start_data_streams_call ==
  /\ conn_pc = "idle"
  /\ disc_pc = "idle"
  /\ CanStart
  /\ tasks' = start_data_streams(registered)
  /\ UNCHANGED <<cmdVars, engineVars, configVars, connVars, session_token, chanVars, sessVars,
                 camera_streams_active, stops_emitted, faults, discVars,
                 waited>>

\* ------------------------------------------------------------ channel loss
\* the socket drops: the client library runs the 'disconnect' event handler
\* (state.connected = False, registered = False) and, built with
\* reconnection=True, starts to reconnect
socket_lost ==
  /\ channel = "open"
  /\ channel' = "closed"
  /\ connected' = FALSE
  /\ registered' = FALSE
  /\ will_reconnect' = TRUE
  /\ connect_event' = FALSE
  /\ reg_inflight' = 0
  /\ waited' = 0
  /\ token_lost' = TRUE
  /\ UNCHANGED <<cmdVars, configVars, connVars, session_token, streamVars,
                 stops_emitted, faults, discVars>>

\* the socket drops, the peer connection left aside
socket_disconnect ==
  /\ socket_lost
  /\ UNCHANGED besideLoss

\* the socket of ProductionWebRTCDrone drops: its 'disconnect' handler also
\* awaits cleanup_webrtc(), which closes the peer connection if there is one
\* and sets self.pc = None (the handler is taken as one step)
socket_disconnect_webrtc ==
  /\ cls = ProductionWebRTCDrone
  /\ socket_lost
  /\ peer_connection' = "None"
  /\ UNCHANGED <<landVars, seqVars, paceVars, clockVars, frame, statVars,
                 fleetVars, offers, recorded>>

\* the client library reconnected: a new 'connect' event
sio_reconnected ==
  /\ will_reconnect
  /\ channel = "closed"
  /\ channel' = "open"
  /\ will_reconnect' = FALSE
  /\ connect_event' = TRUE
  /\ UNCHANGED <<cmdVars, engineVars, configVars, connVars, session_token, reg_inflight, sessVars,
                 streamVars, stops_emitted, faults, discVars, waited>>

\* the client library used up its reconnection attempts
sio_reconnect_gave_up ==
  /\ will_reconnect
  /\ channel = "closed"
  /\ will_reconnect' = FALSE
  /\ UNCHANGED <<cmdVars, engineVars, configVars, connVars, session_token, channel, connect_event,
                 reg_inflight, sessVars, streamVars, stops_emitted, faults,
                 discVars, waited>>

\* --------------------------------------------------------------- producers
SetPc(i, pc) == [tasks EXCEPT ![i].pc = pc]

\* a producer that loops without testing self.registered
loop_forever(kind) == TRUE

\* a producer's loop test: while self.registered
loop_continues(kind) == registered

\* a producer without the try block: the error ends its task
exit_on_emit_error(kind) == "done"

\* where a producer is after an emission of its try block raised: the except
\* clause logs, sleeps one period and the loop goes on
after_emit_error(kind) == "sleep"

\* one period of telemetry_stream / heartbeat_stream / mavros_stream: the loop
\* test, then the payload is built and emitted, then the task sleeps (what the
\* payload carries is not part of the session)
stream_period(i, outcome) ==
  /\ i \in 1..Len(tasks)
  /\ tasks[i].kind \in {"telemetry", "heartbeat", "mavros"}
  /\ tasks[i].pc = "sleep"
  /\ LET kind == tasks[i].kind
     IN IF ~loop_continues(kind)
          THEN /\ tasks' = SetPc(i, "done")
               /\ outcome = "ok"
               /\ UNCHANGED faults
          ELSE /\ outcome \in EmitOutcomes(kind)
               /\ faults' = Logged(kind, outcome)
               /\ tasks' = SetPc(i, IF outcome = "raise"
                                      THEN after_emit_error(kind) ELSE "sleep")
  /\ UNCHANGED <<cmdVars, besideStreams, configVars, connVars, session_token, chanVars, sessVars,
                 camera_streams_active, stops_emitted, discVars, waited>>

\* one period of a producer of the session, its counters left aside
stream_tick(i, outcome) ==
  /\ stream_period(i, outcome)
  /\ UNCHANGED <<seqVars, paceVars, clockVars>>

\* one period of animate_state: the loop test; the motion it computes is not
\* part of the session
animate_tick(i) ==
  /\ i \in 1..Len(tasks)
  /\ tasks[i].kind = "animate"
  /\ tasks[i].pc = "sleep"
  /\ tasks' = IF loop_continues("animate") THEN tasks ELSE SetPc(i, "done")
  /\ UNCHANGED <<cmdVars, engineVars, configVars, connVars, session_token, chanVars, sessVars,
                 camera_streams_active, stops_emitted, faults, discVars,
                 waited>>

\* the loop test of optimized_camera_stream
camera_loop_continues(active) ==
  registered /\ \E c \in CameraSet : active[c]

\* optimized_camera_stream from camera number k of its for loop on: the first
\* camera that is active and due sends a frame (send_optimized_frame catches
\* an emission error itself) and the task is suspended in that emission;
\* past the last camera the task sleeps
camera_from(i, k, active, due, outcome) ==
  LET todo == {j \in k..Len(Cameras) : active[Cameras[j]] /\ due[Cameras[j]]}
  IN IF todo = {}
       THEN /\ tasks' = SetPc(i, "sleep")
            /\ outcome = "ok"
            /\ UNCHANGED faults
       ELSE LET j == CHOOSE x \in todo : \A y \in todo : x <= y
            IN /\ outcome \in EmitOutcomes("camera")
               /\ faults' = Logged("camera", outcome)
               /\ tasks' = SetPc(i, IF j = 1 THEN "sent_front" ELSE "sent_bottom")

\* optimized_camera_stream starts: camera_stream_start of the front camera
camera_start(i, outcome) ==
  /\ i \in 1..Len(tasks)
  /\ tasks[i].kind = "camera"
  /\ tasks[i].pc = "init"
  /\ outcome \in BareOutcomes
  /\ tasks' = SetPc(i, IF outcome = "raise" THEN "done" ELSE "start_front")
  /\ UNCHANGED <<cmdVars, engineVars, configVars, connVars, session_token, chanVars, sessVars,
                 camera_streams_active, stops_emitted, faults, discVars,
                 waited>>

\* the front camera is marked active, camera_stream_start of the bottom one
camera_start_bottom(i, outcome) ==
  /\ i \in 1..Len(tasks)
  /\ tasks[i].kind = "camera"
  /\ tasks[i].pc = "start_front"
  /\ outcome \in BareOutcomes
  /\ camera_streams_active' = [camera_streams_active EXCEPT !["front"] = TRUE]
  /\ tasks' = SetPc(i, IF outcome = "raise" THEN "done" ELSE "start_bottom")
  /\ UNCHANGED <<cmdVars, engineVars, configVars, connVars, session_token, chanVars, sessVars,
                 stops_emitted, faults, discVars, waited>>

\* the camera task resumes at the head of its while loop (after the bottom
\* camera was marked active, or after its sleep)
camera_pass(i, due, outcome) ==
  /\ i \in 1..Len(tasks)
  /\ tasks[i].kind = "camera"
  /\ tasks[i].pc \in {"start_bottom", "sleep"}
  /\ camera_streams_active' =
       IF tasks[i].pc = "start_bottom"
         THEN [camera_streams_active EXCEPT !["bottom"] = TRUE]
         ELSE camera_streams_active
  /\ IF camera_loop_continues(camera_streams_active')
       THEN camera_from(i, 1, camera_streams_active', due, outcome)
       ELSE /\ tasks' = SetPc(i, "done")
            /\ outcome = "ok"
            /\ due = [c \in CameraSet |-> FALSE]
            /\ UNCHANGED faults
  /\ UNCHANGED <<cmdVars, besideStreams, configVars, connVars, session_token, chanVars, sessVars,
                 stops_emitted, discVars, waited>>

\* a pass of the camera task's loop in the session, its counters left aside
camera_loop(i, due, outcome) ==
  /\ camera_pass(i, due, outcome)
  /\ UNCHANGED <<seqVars, paceVars, clockVars>>

\* the camera task resumes after a frame emission: the rest of the for loop
camera_rest(i, due, outcome) ==
  /\ i \in 1..Len(tasks)
  /\ tasks[i].kind = "camera"
  /\ tasks[i].pc \in {"sent_front", "sent_bottom"}
  /\ camera_from(i, IF tasks[i].pc = "sent_front" THEN 2 ELSE 3,
                 camera_streams_active, due, outcome)
  /\ UNCHANGED <<cmdVars, besideStreams, configVars, connVars, session_token, chanVars, sessVars,
                 camera_streams_active, stops_emitted, discVars, waited>>

\* the rest of a pass in the session, its counters left aside
camera_resume(i, due, outcome) ==
  /\ camera_rest(i, due, outcome)
  /\ UNCHANGED <<seqVars, paceVars, clockVars>>

\* ------------------------------------------------------------ disconnect()
\* for task in self.tasks: task.cancel()
cancel_all(ts) ==
  [i \in 1..Len(ts) |->
     IF Live(ts[i]) THEN [ts[i] EXCEPT !.pc = "cancelled"] ELSE ts[i]]

\* disconnect() stops the camera streams first (OptimizedProductionDrone)
StopsCameras == cls = OptimizedProductionDrone /\ enable_camera_streaming

\* the end of disconnect()'s try block: the tasks are cancelled and
\* sio.disconnect() closes the channel, which runs the 'disconnect' handler
\* if the channel was open; the call returns
disconnect_finish ==
  /\ tasks' = cancel_all(tasks)
  /\ channel' = "closed"
  /\ registered' = IF channel = "open" THEN FALSE ELSE registered
  /\ connected' = IF channel = "open" THEN FALSE ELSE connected
  /\ will_reconnect' = FALSE
  /\ connect_event' = FALSE
  /\ reg_inflight' = 0
  /\ waited' = 0
  /\ disc_pc' = "idle"
  /\ disc_returned' = TRUE

\* disconnect() from camera number k of its for loop on, active being
\* camera_streams_active: the first active camera gets its camera_stream_stop
\* and the call is suspended in that emission; if the emission raises, the
\* except clause logs and the call returns; past the last camera the try
\* block ends
disconnect_from(k, active, outcome) ==
  LET todo == {j \in k..Len(Cameras) : StopsCameras /\ active[Cameras[j]]}
  IN /\ camera_streams_active' = active
     /\ IF todo = {}
          THEN /\ outcome = "ok"
               /\ disconnect_finish
               /\ UNCHANGED <<stops_emitted, faults>>
          ELSE LET j == CHOOSE x \in todo : \A y \in todo : x <= y
               IN /\ outcome \in EmitOutcomes("disconnect")
                  /\ faults' = Logged("disconnect", outcome)
                  /\ stops_emitted' =
                       IF outcome = "raise" THEN stops_emitted
                       ELSE [stops_emitted EXCEPT ![Cameras[j]] = @ + 1]
                  /\ disc_pc' = IF outcome = "raise" THEN "idle"
                                ELSE IF j = 1 THEN "stop_front" ELSE "stop_bottom"
                  /\ disc_returned' = (outcome = "raise" \/ disc_returned)
                  /\ UNCHANGED <<tasks, chanVars, sessVars, waited>>

\* disconnect() is called (run()'s finally, the tests, the fleet's cleanup)
disconnect_call(outcome) ==
  /\ disc_pc = "idle"
  /\ conn_pc = "idle"
  /\ disconnect_from(1, camera_streams_active, outcome)
  /\ UNCHANGED <<cmdVars, engineVars, configVars, connVars, session_token>>

\* disconnect() resumes after a camera_stream_stop emission: the camera is
\* marked inactive and the for loop goes on
disconnect_resume(outcome) ==
  /\ disc_pc \in {"stop_front", "stop_bottom"}
  /\ LET j == IF disc_pc = "stop_front" THEN 1 ELSE 2
     IN disconnect_from(j + 1,
                        [camera_streams_active EXCEPT ![Cameras[j]] = FALSE],
                        outcome)
  /\ UNCHANGED <<cmdVars, engineVars, configVars, connVars, session_token>>

\* ------------------------------------------------------------------- run()
\* connect() returned True in its last call
ConnectReturnedTrue ==
  /\ conn_pc = "idle"
  /\ conn_steps # <<>>
  /\ conn_steps[Len(conn_steps)] = [op |-> "open", ok |-> TRUE]

\* one period of run()'s loop (while True: await asyncio.sleep(1)), counted
\* while the registration acknowledgment is missing; the loop has no exit
run_tick ==
  /\ ConnectReturnedTrue
  /\ disc_returned = FALSE
  /\ AwaitingAck
  /\ waited <= max_wait
  /\ waited' = waited + 1
  /\ UNCHANGED <<cmdVars, engineVars, configVars, connVars, session_token, chanVars, sessVars,
                 streamVars, stops_emitted, faults, discVars>>

\* -------------------------------------------------------- handle_command()
\* dict.get(key, default) on a dictionary given as a set of <<key, value>>
get(dict, key, default) ==
  IF \E kv \in dict : kv[1] = key
    THEN (CHOOSE kv \in dict : kv[1] = key)[2]
    ELSE default

\* the command types the server sends: the five handle_command() knows and
\* one it does not
CommandTypes == {"arm", "disarm", "takeoff", "land", "rtl", "foo"}

\* the parameters of a command: none, or the altitude of a takeoff
Parameters(type) ==
  IF type = "takeoff" THEN {{}, {<<"altitude", 10>>}} ELSE {{}}

\* the 'command' event handler enters handle_command(data): the command's
\* type, parameters and id are read into locals and the call sleeps its
\* processing delay.  The server numbers its commands.
command_arrives(type, parameters, has_timestamp) ==
  /\ channel = "open"
  /\ Len(handlers) < MaxCmds
  /\ handlers' = Append(handlers,
                        [command_id |-> Len(handlers) + 1,
                         command_type |-> type,
                         parameters |-> parameters,
                         has_timestamp |-> has_timestamp,
                         pc |-> "sleeping"])
  /\ UNCHANGED <<engineVars, configVars, connVars, session_token, chanVars,
                 sessVars,
                 streamVars, stops_emitted, faults, discVars, waited, armed,
                 flight_mode, altitude_relative, responses,
                 command_measurements>>

\* a dispatcher whose if chain ends in an else that treats a type it does
\* not know as a disarm
state_after_unknown_disarms(type, parameters) ==
  CASE type = "arm" ->
         [armed |-> TRUE, flight_mode |-> "GUIDED",
          altitude_relative |-> altitude_relative]
    [] type = "takeoff" ->
         [armed |-> armed, flight_mode |-> "GUIDED",
          altitude_relative |-> get(parameters, "altitude", 50)]
    [] type = "land" ->
         [armed |-> armed, flight_mode |-> "LAND",
          altitude_relative |-> altitude_relative]
    [] type = "rtl" ->
         [armed |-> armed, flight_mode |-> "RTL",
          altitude_relative |-> altitude_relative]
    [] OTHER ->
         [armed |-> FALSE, flight_mode |-> "STABILIZE",
          altitude_relative |-> altitude_relative]

\* self.state (armed, flight_mode, altitude_relative) after the if chain of
\* handle_command() for a command of this type
state_after(type, parameters) ==
  CASE type = "arm" ->
         [armed |-> TRUE, flight_mode |-> "GUIDED",
          altitude_relative |-> altitude_relative]
    [] type = "disarm" ->
         [armed |-> FALSE, flight_mode |-> "STABILIZE",
          altitude_relative |-> altitude_relative]
    [] type = "takeoff" ->
         [armed |-> armed, flight_mode |-> "GUIDED",
          altitude_relative |-> get(parameters, "altitude", 50)]
    [] type = "land" ->
         [armed |-> armed, flight_mode |-> "LAND",
          altitude_relative |-> altitude_relative]
    [] type = "rtl" ->
         [armed |-> armed, flight_mode |-> "RTL",
          altitude_relative |-> altitude_relative]
    [] OTHER ->
         [armed |-> armed, flight_mode |-> flight_mode,
          altitude_relative |-> altitude_relative]

\* a handler that keeps the id of the command in a field of the agent: it
\* answers with the id of the command received last
response_id_shared(h) == handlers[Len(handlers)].command_id

\* 'commandId' of the response of call h: its local command_id
response_id(h) == handlers[h].command_id

\* the response handle_command() builds in call h
response(h) ==
  [commandId |-> response_id(h),
   command |-> handlers[h].command_type,
   status |-> "executed",
   result |-> "success"]

\* measure_command_latency(): a sample is recorded when both the command
\* and the response carry a timestamp (the response always does)
measure_command_latency(has_timestamp) ==
  IF has_timestamp THEN command_measurements + 1 ELSE command_measurements

\* call h once its emission returned or raised: the call is over, of its
\* locals the id and type of the command are remembered
returned(h, outcome) ==
  [command_id |-> handlers[h].command_id,
   command_type |-> handlers[h].command_type,
   parameters |-> {},
   has_timestamp |-> FALSE,
   pc |-> IF outcome = "raise" THEN "failed" ELSE "done"]

\* call h of handle_command() resumes after its delay: the state is changed,
\* the response built, the latency measured if enabled, and command_response
\* emitted; an emission that raises ends the call with that error
handle_command_resume(h, outcome) ==
  /\ h \in 1..Len(handlers)
  /\ handlers[h].pc = "sleeping"
  /\ outcome \in BareOutcomes
  /\ LET after == state_after(handlers[h].command_type, handlers[h].parameters)
     IN /\ armed' = after.armed
        /\ flight_mode' = after.flight_mode
        /\ altitude_relative' = after.altitude_relative
  /\ command_measurements' =
       IF enable_latency_measurement
         THEN measure_command_latency(handlers[h].has_timestamp)
         ELSE command_measurements
  /\ responses' = Append(responses,
                         [message |-> response(h), outcome |-> outcome])
  /\ handlers' = [handlers EXCEPT ![h] = returned(h, outcome)]
  /\ UNCHANGED <<configVars, connVars, session_token, chanVars, sessVars,
                 streamVars, stops_emitted, faults, discVars, waited>>

\* the resumed call, the sequence ids of its measurements left aside
command_resume(h, outcome) ==
  /\ handle_command_resume(h, outcome)
  /\ UNCHANGED engineVars

\* ------------------------------------------------- start_precision_landing()
\* stages = ['APPROACH', 'DESCENT', 'FINAL', 'LANDED']
Stages == <<"APPROACH", "DESCENT", "FINAL", "LANDED">>

\* the precision_land_real events emitted by abort_precision_landing()
Aborted == {k \in 1..Len(progress) : progress[k].stage = "ABORTED"}

\* the landing coroutine once emission number st of landing l was entered
emitting(st, outcome) ==
  [stage |-> st, pc |-> IF outcome = "raise" THEN "failed" ELSE "emit"]

\* start_precision_landing() is called (the 'precision_landing_command'
\* handler of ProductionMockDrone, handle_command() of MockDrone, the test):
\* MockDrone returns at once when a landing is active and sets the flag
\* otherwise; the first stage is emitted
landing_start(outcome) ==
  /\ channel = "open"
  /\ Len(landings) < MaxLandings
  /\ outcome \in BareOutcomes
  /\ IF cls = MockDrone /\ precision_landing_active
       THEN UNCHANGED <<landings, precision_landing_active, progress>>
       ELSE /\ precision_landing_active' = (cls = MockDrone)
            /\ landings' = Append(landings, emitting(1, outcome))
            /\ progress' = Append(progress,
                                  [landing |-> Len(landings) + 1,
                                   stage |-> Stages[1],
                                   outcome |-> outcome])
  /\ UNCHANGED <<sessionVars, cmdVars, besideLand, aborting, descents>>

\* landing l resumes after the emission of its stage: the altitude descends
\* in DESCENT and FINAL, and the stage dwells its 2 seconds
landing_emitted(l) ==
  /\ l \in 1..Len(landings)
  /\ landings[l].pc = "emit"
  /\ landings' = [landings EXCEPT ![l].pc = "dwell"]
  /\ descents' = IF Stages[landings[l].stage] \in {"DESCENT", "FINAL"}
                   THEN descents + 1 ELSE descents
  /\ UNCHANGED <<sessionVars, cmdVars, besideLand, precision_landing_active, progress,
                 aborting>>

\* the test at the head of the stage loop: MockDrone leaves the loop once
\* the landing is no longer active, ProductionMockDrone has no such test
landing_continues == cls = MockDrone => precision_landing_active

\* landing l resumes after the dwell of its stage: the next stage is emitted,
\* or the loop is over and the flight mode becomes LAND
landing_dwelt(l, outcome) ==
  /\ l \in 1..Len(landings)
  /\ landings[l].pc = "dwell"
  /\ IF landings[l].stage < Len(Stages) /\ landing_continues
       THEN /\ outcome \in BareOutcomes
            /\ landings' = [landings EXCEPT
                              ![l] = emitting(landings[l].stage + 1, outcome)]
            /\ progress' = Append(progress,
                                  [landing |-> l,
                                   stage |-> Stages[landings[l].stage + 1],
                                   outcome |-> outcome])
            /\ UNCHANGED <<precision_landing_active, flight_mode>>
       ELSE /\ outcome = "ok"
            /\ landings' = [landings EXCEPT ![l].pc = "done"]
            /\ precision_landing_active' = FALSE
            /\ flight_mode' = "LAND"
            /\ UNCHANGED progress
  /\ UNCHANGED <<sessionVars, besideLand, handlers, armed, altitude_relative, responses,
                 command_measurements, aborting, descents>>

\* abort_precision_landing() is called: MockDrone does nothing unless a
\* landing is active and then clears the flag; the ABORTED event is emitted
abort_precision_landing(outcome) ==
  /\ channel = "open"
  /\ Cardinality(Aborted) < MaxAborts
  /\ cls = MockDrone => precision_landing_active
  /\ outcome \in BareOutcomes
  /\ precision_landing_active' = FALSE
  /\ progress' = Append(progress,
                        [landing |-> 0, stage |-> "ABORTED",
                         outcome |-> outcome])
  /\ aborting' = IF outcome = "raise" THEN aborting ELSE aborting + 1
  /\ UNCHANGED <<sessionVars, cmdVars, besideLand, landings, descents>>

\* abort_precision_landing() resumes after its emission: flight mode LOITER
abort_emitted ==
  /\ aborting > 0
  /\ aborting' = aborting - 1
  /\ flight_mode' = "LOITER"
  /\ UNCHANGED <<sessionVars, besideLand, handlers, armed, altitude_relative, responses,
                 command_measurements, landings, precision_landing_active,
                 progress, descents>>

\* ------------------------------------------------------- sequence numbers
\* a counter that starts over at MaxSeq
next_sequence_wrapping(n) == (n + 1) % MaxSeq

\* self.sequence_counters[...] += 1, self.camera_frame_counter[camera] += 1
next_sequence(n) == n + 1

\* the log after an emission that carried number on stream: an emission that
\* raised or was dropped on a closed channel carried nothing to the server
carried(log, stream, number, outcome) ==
  IF outcome = "ok" THEN [log EXCEPT ![stream] = Append(@, number)] ELSE log

\* one period of telemetry_stream / heartbeat_stream of ProductionMockDrone
\* with its counter: inside the try block the counter is incremented, the
\* payload takes its value as sequence_id and is emitted, with no suspension
\* between the increment and the call of emit
telemetry_stream(i, outcome) ==
  /\ stream_period(i, outcome)
  /\ LET kind == tasks[i].kind
     IN IF cls = ProductionMockDrone /\ kind \in SequencedKinds
             /\ loop_continues(kind)
          THEN /\ sequence_counters[kind] < MaxSeq
               /\ sequence_counters' =
                    [sequence_counters EXCEPT ![kind] = next_sequence(@)]
               /\ emitted' =
                    carried(emitted, kind, sequence_counters'[kind], outcome)
          ELSE UNCHANGED <<sequence_counters, emitted>>
  /\ UNCHANGED <<camera_frame_counter, frame_sequence, paceVars, clockVars>>

\* send_optimized_frame(camera) as called by the pass that left task i in
\* the emission of a frame: both counters are incremented, the frame is
\* generated and emitted with frameNumber, with no suspension before the
\* call of emit
send_optimized_frame(i, outcome) ==
  LET camera == IF tasks'[i].pc = "sent_front" THEN "front"
                ELSE IF tasks'[i].pc = "sent_bottom" THEN "bottom"
                ELSE "none"
  IN IF camera = "none"
       THEN UNCHANGED <<camera_frame_counter, frame_sequence, emitted>>
       ELSE /\ camera_frame_counter[camera] < MaxSeq
            /\ camera_frame_counter' =
                 [camera_frame_counter EXCEPT ![camera] = next_sequence(@)]
            /\ frame_sequence' = frame_sequence + 1
            /\ emitted' = carried(emitted, camera,
                                  camera_frame_counter'[camera], outcome)

\* a pass of optimized_camera_stream's loop with the frame counters
optimized_camera_stream(i, due, outcome) ==
  /\ camera_pass(i, due, outcome)
  /\ send_optimized_frame(i, outcome)
  /\ UNCHANGED <<sequence_counters, paceVars, clockVars>>

\* the rest of a pass, after a frame emission, with the frame counters
optimized_camera_stream_resume(i, due, outcome) ==
  /\ camera_rest(i, due, outcome)
  /\ send_optimized_frame(i, outcome)
  /\ UNCHANGED <<sequence_counters, paceVars, clockVars>>

\* ----------------------------------------------------------------- pacing
\* the camera rates whose base interval is a whole number of tens of
\* milliseconds (times are in milliseconds)
FpsValues == {f \in 1..MaxFps : 100 % f = 0}

\* base_frame_interval = 1.0 / self.config.camera_fps
base_frame_interval == 1000 \div camera_fps

\* a handler that stores the reported queue depth for every camera
queue_after_ack_shared(status, data) ==
  IF \E kv \in data : kv[1] = "queueSize"
    THEN [c \in DOMAIN status |-> get(data, "queueSize", 0)]
    ELSE status

\* camera_frame_ack(data): self.frame_queue_status afterwards, status being
\* the one before; data is a dictionary given as a set of <<key, value>>,
\* and nothing is stored for a camera self.camera_performance_metrics does
\* not hold
queue_after_ack(status, data) ==
  LET camera == get(data, "camera", "None")
  IN IF /\ camera \in DOMAIN camera_performance_metrics
        /\ \E kv \in data : kv[1] = "queueSize"
       THEN [status EXCEPT ![camera] = get(data, "queueSize", 0)]
       ELSE status

\* camera_frame_ack(data): self.camera_performance_metrics afterwards
metrics_after_ack(metrics, data) ==
  LET camera == get(data, "camera", "None")
  IN IF camera \in DOMAIN metrics
       THEN [metrics EXCEPT
               ![camera].last_ack_time = now,
               ![camera].compression_ratio =
                  get(data, "compressionRatio", @)]
       ELSE metrics

\* the 'camera_frame_ack' event handler on data
on_camera_frame_ack(data) ==
  /\ channel = "open"
  /\ frame_queue_status' = queue_after_ack(frame_queue_status, data)
  /\ camera_performance_metrics' =
       metrics_after_ack(camera_performance_metrics, data)
  /\ UNCHANGED <<sessionVars, cmdVars, besidePace, clockVars,
                 camera_fps, adaptive_interval>>

\* camera_frame_ack(data) with data['camera'] = camera and
\* data['queueSize'] = queueSize: the queue depth of the camera is stored
camera_frame_ack(camera, queueSize) ==
  on_camera_frame_ack({<<"camera", camera>>, <<"queueSize", queueSize>>})

\* a pacing rule that slows down from a queue depth of 2 on
calculate_adaptive_interval_from_two(base_interval, queue_size) ==
  IF queue_size >= 2
    THEN (base_interval * (15 + queue_size * 3)) \div 10
    ELSE IF queue_size = 0
           THEN (base_interval * 8) \div 10
           ELSE base_interval

\* calculate_adaptive_interval(base_interval, queue_size): the factors
\* 1.5 + queue_size * 0.3 and 0.8 are taken in tenths
calculate_adaptive_interval(base_interval, queue_size) ==
  IF queue_size > 2
    THEN (base_interval * (15 + queue_size * 3)) \div 10
    ELSE IF queue_size = 0
           THEN (base_interval * 8) \div 10
           ELSE base_interval

\* the camera loop reads the queue depth of camera and computes its interval
calculate(camera) ==
  /\ LET queue_size == frame_queue_status[camera]
     IN adaptive_interval' =
          [adaptive_interval EXCEPT ![camera] =
             <<queue_size,
               calculate_adaptive_interval(base_frame_interval, queue_size)>>]
  /\ UNCHANGED <<sessionVars, cmdVars, besidePace, clockVars,
                 camera_fps, frame_queue_status, camera_performance_metrics>>

\* a camera that sends at its configured rate whatever the queue depth
frame_due_at_rate(elapsed, interval) == elapsed >= base_frame_interval

\* if current_time - self.last_frame_time[camera] >= adaptive_interval
frame_due(elapsed, interval) == elapsed >= interval

\* the cameras that are due when the clock reads time, last being
\* self.last_frame_time
due_at(time, last) ==
  [c \in CameraSet |->
     frame_due(time - last[c],
               calculate_adaptive_interval(base_frame_interval,
                                           frame_queue_status[c]))]

\* the camera whose frame a task at pc is emitting
frame_of(pc) ==
  IF pc = "sent_front" THEN "front"
  ELSE IF pc = "sent_bottom" THEN "bottom"
  ELSE "none"

\* the camera task i went into the emission of a frame with the clock at
\* time: its current_time is kept for the assignment that follows the
\* emission, and the time since the camera's send before is noted (no send
\* was before while last_sent is 0)
frame_timed(i, time) ==
  LET camera == frame_of(tasks'[i].pc)
  IN IF camera = "none"
       THEN UNCHANGED <<current_time, last_sent, gap>>
       ELSE /\ current_time' = (i :> time) @@ current_time
            /\ last_sent' = [last_sent EXCEPT ![camera] = time]
            /\ gap' = IF last_sent[camera] = 0
                        THEN gap
                        ELSE (camera :> time - last_sent[camera]) @@ gap

\* a pass of optimized_camera_stream's loop with the clock: the sleep before
\* it took slept ms (none when the loop is entered), each camera is tested
\* against its adaptive interval and the first one due sends its frame
timed_pass(i, slept, outcome) ==
  /\ i \in 1..Len(tasks)
  /\ tasks[i].kind = "camera"
  /\ now < StartTime + Horizon
  /\ slept \in IF tasks[i].pc = "sleep" THEN busy_wait..MaxSleep ELSE {0}
  /\ now' = now + slept
  /\ camera_pass(i, IF camera_loop_continues(camera_streams_active')
                      THEN due_at(now', last_frame_time)
                      ELSE [c \in CameraSet |-> FALSE], outcome)
  /\ frame_timed(i, now')
  /\ UNCHANGED <<seqVars, paceVars, last_frame_time>>

\* the rest of a pass with the clock: the emission returned (it is taken to
\* last no time), self.last_frame_time[camera] = current_time, and the
\* cameras after it are tested
timed_rest(i, outcome) ==
  /\ i \in 1..Len(tasks)
  /\ tasks[i].kind = "camera"
  /\ frame_of(tasks[i].pc) # "none"
  /\ last_frame_time' =
       [last_frame_time EXCEPT ![frame_of(tasks[i].pc)] = current_time[i]]
  /\ camera_rest(i, due_at(now, last_frame_time'), outcome)
  /\ frame_timed(i, now)
  /\ UNCHANGED <<seqVars, paceVars, now>>

\* send_optimized_frame(camera): self.camera_performance_metrics afterwards,
\* the emission having ended with outcome (the except clause counts the
\* frame as skipped)
metrics_after_send(metrics, camera, outcome) ==
  IF outcome = "raise"
    THEN [metrics EXCEPT ![camera].frames_skipped = @ + 1]
    ELSE [metrics EXCEPT ![camera].frames_sent = @ + 1]

\* the metrics of the frame the camera task i went into the emission of
frame_counted(i, outcome) ==
  LET camera == frame_of(tasks'[i].pc)
  IN camera_performance_metrics' =
       IF camera = "none"
         THEN camera_performance_metrics
         ELSE metrics_after_send(camera_performance_metrics, camera, outcome)

\* a pass of optimized_camera_stream's loop with all it keeps per camera:
\* the clock, the frame counters and the metrics
paced_pass(i, slept, outcome) ==
  /\ i \in 1..Len(tasks)
  /\ tasks[i].kind = "camera"
  /\ now < StartTime + Horizon
  /\ slept \in IF tasks[i].pc = "sleep" THEN busy_wait..MaxSleep ELSE {0}
  /\ now' = now + slept
  /\ camera_pass(i, IF camera_loop_continues(camera_streams_active')
                      THEN due_at(now', last_frame_time)
                      ELSE [c \in CameraSet |-> FALSE], outcome)
  /\ send_optimized_frame(i, outcome)
  /\ frame_timed(i, now')
  /\ frame_counted(i, outcome)
  /\ UNCHANGED <<sequence_counters, camera_fps, frame_queue_status,
                 adaptive_interval, last_frame_time>>

\* the rest of such a pass, after a frame emission
paced_rest(i, outcome) ==
  /\ i \in 1..Len(tasks)
  /\ tasks[i].kind = "camera"
  /\ frame_of(tasks[i].pc) # "none"
  /\ last_frame_time' =
       [last_frame_time EXCEPT ![frame_of(tasks[i].pc)] = current_time[i]]
  /\ camera_rest(i, due_at(now, last_frame_time'), outcome)
  /\ send_optimized_frame(i, outcome)
  /\ frame_timed(i, now)
  /\ frame_counted(i, outcome)
  /\ UNCHANGED <<sequence_counters, camera_fps, frame_queue_status,
                 adaptive_interval, now>>

\* ---------------------------------------------------------- frame encoder
\* the sum of a sequence of numbers
RECURSIVE Sum(_)
Sum(seq) == IF seq = <<>> THEN 0 ELSE Head(seq) + Sum(Tail(seq))

\* struct: the format characters and the bytes each packs; 'F' (a complex
\* number of two floats) is a format character from Python 3.14 on and an
\* error before
struct_sizes(complex_formats) ==
  [I |-> 4, H |-> 2, f |-> 4] @@
  (IF complex_formats THEN [F |-> 8] ELSE << >>)

\* a number as two digits in base 2^16, the high one first (a clock reading
\* in ms does not fit the integers of the model checker)
Wide(n) == <<n \div 2^16, n % 2^16>>

\* struct: a value fits its format character: 'I' holds 0..2^32 - 1 and 'H'
\* holds 0..2^16 - 1
struct_fits(char, value) ==
  IF char = "I" THEN value[1] \in 0..(2^16 - 1)
  ELSE IF char = "H" THEN value[1] = 0
  ELSE TRUE

\* struct.pack('>' + format, *values): the widths of the packed fields in
\* order, or no field at all where struct.error is raised, for a format
\* character struct does not know or a value that does not fit its field
struct_pack(format, values, complex_formats) ==
  LET sizes == struct_sizes(complex_formats)
  IN IF \E k \in 1..Len(format) : format[k] \notin DOMAIN sizes
       THEN <<>>
     ELSE IF \E k \in 1..Len(format) : ~struct_fits(format[k], values[k])
       THEN <<>>
     ELSE [k \in 1..Len(format) |-> sizes[format[k]]]

\* the format of the header: '>IIHHIIFF'
header_format == <<"I", "I", "H", "H", "I", "I", "F", "F">>

\* frame_type = 'I' if frame_number % 30 == 0 else 'P'
frame_type_of(frame_number) == IF frame_number % 30 = 0 THEN "I" ELSE "P"

\* generate_realistic_binary_frame(camera) with int(time.time() * 1000) =
\* timestamp: the header is packed and the frame classified, and any error
\* on the way is caught and answered by the fallback frame
\* b'FALLBACK_FRAME_DATA' + 4 bytes, which has no header and no type (the
\* coordinates are floats and fit; 0 stands for them)
generate_realistic_binary_frame(camera, timestamp, complex_formats) ==
  LET frame_number == camera_frame_counter'[camera]
      header == struct_pack(header_format,
                            <<Wide(305419896), timestamp,
                              Wide(IF camera = "front" THEN 1 ELSE 2),
                              Wide(frame_number), Wide(0),
                              Wide(frame_sequence'), Wide(0), Wide(0)>>,
                            complex_formats)
  IN IF header = <<>>
       THEN [camera |-> camera, frame_number |-> frame_number,
             frame_type |-> "none", header |-> <<>>]
       ELSE [camera |-> camera, frame_number |-> frame_number,
             frame_type |-> frame_type_of(frame_number), header |-> header]

\* the clock readings the encoder is given, in ms since 1970: the clock of
\* the model's runs, the last reading that fits 32 bits (2^32 - 1, on
\* 1970-02-19) and the first that does not (2^32)
Timestamps == {Wide(StartTime), <<2^16 - 1, 2^16 - 1>>, <<2^16, 0>>}

\* send_optimized_frame(camera) up to the generated frame: the counters are
\* incremented and the frame is generated
encode_frame(camera, timestamp, complex_formats) ==
  /\ camera_frame_counter[camera] < MaxFrames
  /\ camera_frame_counter' =
       [camera_frame_counter EXCEPT ![camera] = next_sequence(@)]
  /\ frame_sequence' = frame_sequence + 1
  /\ frame' = generate_realistic_binary_frame(camera, timestamp,
                                              complex_formats)
  /\ UNCHANGED <<sessionVars, cmdVars, besideFrame, sequence_counters,
                 emitted>>

\* the format of the header of ProductionWebRTCDrone's frames: '>IIHHI'
webrtc_header_format == <<"I", "I", "H", "H", "I">>

\* generate_binary_camera_frame(camera) of ProductionWebRTCDrone with
\* int(time.time() * 1000) = timestamp: the header is packed with
\* self.frame_sequence as the frame number, and any error on the way is
\* caught and answered by the empty frame b'', which has no header (these
\* frames have no type; 0 stands for the payload size, which fits)
generate_binary_camera_frame(camera, timestamp) ==
  [camera |-> camera,
   frame_number |-> frame_sequence',
   frame_type |-> "none",
   header |-> struct_pack(webrtc_header_format,
                          <<Wide(305419896), timestamp,
                            Wide(IF camera = "front" THEN 1 ELSE 2),
                            Wide(frame_sequence'), Wide(0)>>,
                          FALSE)]

\* send_camera_frame_webrtc(camera) up to the generated frame
encode_frame_webrtc(camera, timestamp) ==
  /\ cls = ProductionWebRTCDrone
  /\ frame_sequence < MaxFrames
  /\ frame_sequence' = frame_sequence + 1
  /\ frame' = generate_binary_camera_frame(camera, timestamp)
  /\ UNCHANGED <<sessionVars, cmdVars, besideFrame, sequence_counters,
                 camera_frame_counter, emitted>>

\* ------------------------------------------------------ latency statistics
\* the measurement types of the model, the latencies an acknowledgment may
\* show (in ms), and the percentiles asked for
Categories == {"telemetry", "heartbeat"}
Latencies == {10, 20, 30, 40, 1000}
Percentiles == {0, 50, 95, 99, 100}

\* a float is written <<h, r>>: its exact value in hundredths, and the
\* rounding error of the floating-point operations that produced it, which
\* is smaller than any difference between two exact values and is one of
\* Roundings (below, none, above)
Roundings == {-1, 0, 1}
Exact(x) == <<100 * x, 0>>
Leq(a, b) == a[1] < b[1] \/ (a[1] = b[1] /\ a[2] <= b[2])

\* telemetry_ack / heartbeat_ack with a timestamp: measure_telemetry_latency
\* / measure_heartbeat_latency append a measurement of latency_ms (what the
\* statistics returned before has been printed by then)
measure_latency(category, latency_ms) ==
  /\ channel = "open"
  /\ enable_latency_measurement
  /\ Len(latency_measurements) < MaxSamples
  /\ latency_measurements' =
       Append(latency_measurements,
              [measurement_type |-> category, latency_ms |-> latency_ms])
  /\ stats' = NoStats
  /\ pct' = NoCall
  /\ UNCHANGED <<sessionVars, cmdVars, besideStats, acks>>

\* sorted(data)
RECURSIVE sorted(_)
sorted(data) ==
  IF data = <<>> THEN <<>>
  ELSE LET k == CHOOSE i \in 1..Len(data) :
                  \A j \in 1..Len(data) : data[i] <= data[j]
       IN <<data[k]>> \o
          sorted(SubSeq(data, 1, k - 1) \o SubSeq(data, k + 1, Len(data)))

\* a percentile without interpolation: the lower order statistic
percentile_lower(data, p, rounding) ==
  IF data = <<>> THEN Exact(0)
  ELSE Exact(sorted(data)[((Len(data) - 1) * p) \div 100 + 1])

\* percentile(data, p): index and weight are taken in hundredths; the sum
\* of the two products is exact when the weight is 0 and carries a
\* rounding error otherwise
percentile(data, p, rounding) ==
  IF data = <<>> THEN Exact(0)
  ELSE LET sorted_data == sorted(data)
           index == (Len(sorted_data) - 1) * p
           lower == index \div 100
           upper == IF lower + 1 < Len(sorted_data) - 1
                      THEN lower + 1 ELSE Len(sorted_data) - 1
           weight == index - 100 * lower
       IN <<sorted_data[lower + 1] * (100 - weight)
              + sorted_data[upper + 1] * weight,
            IF weight = 0 THEN 0 ELSE rounding>>

\* statistics.median(data): the middle element, or the mean of the two
\* middle elements, which is exact when they are equal
median(data) ==
  LET sorted_data == sorted(data)
      n == Len(data)
  IN IF n % 2 = 1
       THEN Exact(sorted_data[n \div 2 + 1])
       ELSE <<50 * (sorted_data[n \div 2] + sorted_data[n \div 2 + 1]), 0>>

\* the measurement types of all measurements but the last
by_type_but_last(measurements) ==
  {measurements[k].measurement_type : k \in 1..(Len(measurements) - 1)}

\* the keys of by_type: the measurement types that have a measurement
by_type(measurements) ==
  {measurements[k].measurement_type : k \in 1..Len(measurements)}

\* [m.latency_ms for m in measurements] of one measurement type
latencies_of(measurements, type) ==
  LET of_type(m) == m.measurement_type = type
      ms == SelectSeq(measurements, of_type)
  IN [k \in 1..Len(ms) |-> ms[k].latency_ms]

\* get_latency_statistics() / calculate_production_fleet_statistics() on
\* measurements: an entry for each key of by_type, with count, min_ms,
\* max_ms, median_ms, p95_ms and p99_ms (fleet: total_measurements,
\* fleet_median, fleet_p95, fleet_p99) and the mean as the fraction
\* <<sum, count>>; the payload sizes are left aside
statistics_of(measurements, r95, r99) ==
  [type \in by_type(measurements) |->
     LET latencies == latencies_of(measurements, type)
         sorted_data == sorted(latencies)
     IN [count |-> Len(latencies),
         min_ms |-> Exact(sorted_data[1]),
         max_ms |-> Exact(sorted_data[Len(latencies)]),
         avg_ms |-> <<Sum(latencies), Len(latencies)>>,
         median_ms |-> median(latencies),
         p95_ms |-> percentile(latencies, 95, r95),
         p99_ms |-> percentile(latencies, 99, r99)]]

\* get_latency_statistics(), called once on the measurements there are (a
\* second call on the same measurements returns the same)
get_latency_statistics(r95, r99) ==
  /\ stats = NoStats
  /\ stats' = [by |-> "drone",
               value |-> statistics_of(latency_measurements, r95, r99)]
  /\ UNCHANGED <<sessionVars, cmdVars, besideStats, latency_measurements, pct,
                 acks>>

\* calculate_production_fleet_statistics(connected_drones), the agent being
\* the one connected drone, called once on the measurements there are
calculate_production_fleet_statistics(r95, r99) ==
  /\ stats = NoStats
  /\ stats' = [by |-> "fleet",
               value |-> statistics_of(latency_measurements, r95, r99)]
  /\ UNCHANGED <<sessionVars, cmdVars, besideStats, latency_measurements, pct,
                 acks>>

\* self.percentile(latencies, p) on the telemetry latencies, called once on
\* the measurements there are
percentile_call(p, rounding) ==
  /\ pct = NoCall
  /\ LET data == latencies_of(latency_measurements, "telemetry")
     IN pct' = [p |-> p, data |-> data,
                value |-> percentile(data, p, rounding)]
  /\ UNCHANGED <<sessionVars, cmdVars, besideStats, latency_measurements, stats,
                 acks>>


\* ------------------------------------------------------- acknowledgments
\* the events whose handler measures a latency, the measurement type each
\* one records and the field each one reads its send time from
AckEvents == {"telemetry_ack", "heartbeat_ack", "camera_stream_ack"}

measurement_type_of(event) ==
  CASE event = "telemetry_ack" -> "telemetry"
    [] event = "heartbeat_ack" -> "heartbeat"
    [] event = "camera_stream_ack" -> "camera"

timestamp_field(event) ==
  IF event = "heartbeat_ack" THEN "serverTimestamp" ELSE "timestamp"

\* the agent class has a handler for event (camera_stream_ack is handled by
\* ProductionMockDroneWithCamera alone)
handles(klass, event) ==
  event = "camera_stream_ack" => klass = ProductionMockDroneWithCamera

\* the send times an acknowledgment may show, in ms, and the data it may
\* come with: a dictionary given as a set of <<key, value>>
SendTimes == {now - 10, now - 20}

AckData ==
  {d \in SUBSET ({"timestamp", "serverTimestamp"} \X SendTimes) :
     \A kv, lm \in d : kv[1] = lm[1] => kv = lm}

\* a measurement that takes a missing field for 0
has_key_or_default(key, dict) == TRUE

\* key in dict
has_key(key, dict) == \E kv \in dict : kv[1] = key

\* measure_telemetry_latency / measure_heartbeat_latency /
\* measure_camera_latency on ack_data: self.latency_measurements afterwards
measure_ack_latency(event, ack_data) ==
  IF has_key(timestamp_field(event), ack_data)
    THEN LET send_time == get(ack_data, timestamp_field(event), 0)
             receive_time == now
         IN Append(latency_measurements,
                   [measurement_type |-> measurement_type_of(event),
                    latency_ms |-> receive_time - send_time])
    ELSE latency_measurements

\* the handler of telemetry_ack / heartbeat_ack / camera_stream_ack is given
\* data: with config.enable_latency_measurement it measures the latency
ack_event(event, data) ==
  /\ channel = "open"
  /\ handles(cls, event)
  /\ Len(acks) < MaxAcks
  /\ acks' = Append(acks, [event |-> event, data |-> data])
  /\ latency_measurements' =
       IF enable_latency_measurement
         THEN measure_ack_latency(event, data)
         ELSE latency_measurements
  /\ stats' = NoStats
  /\ pct' = NoCall
  /\ UNCHANGED <<sessionVars, cmdVars, besideStats>>


\* ---------------------------------------- sequence ids of the measurements
\* the measurements of one type among the records
of_type(type) ==
  LET is_type(m) == m.measurement_type = type IN SelectSeq(recorded, is_type)

\* the handler of telemetry_ack / heartbeat_ack of ProductionMockDrone is
\* given the acknowledgment of an emission of the stream, which carries the
\* timestamp of that emission (the server answers the emissions it received
\* in their order): measure_telemetry_latency / measure_heartbeat_latency
\* record a measurement whose sequence_id is self.sequence_counters[...] as
\* it is by then; what the record acknowledges is kept beside it as the
\* number the acknowledged emission carried
telemetry_ack(kind) ==
  /\ cls = ProductionMockDrone
  /\ channel = "open"
  /\ enable_latency_measurement
  /\ kind \in SequencedKinds
  /\ LET k == Len(of_type(kind)) + 1
     IN /\ k <= Len(emitted[kind])
        /\ recorded' = Append(recorded,
                              [measurement_type |-> kind,
                               sequence_id |-> sequence_counters[kind],
                               acknowledges |-> emitted[kind][k]])
  /\ UNCHANGED <<sessionVars, cmdVars, besideRecorded>>

\* the resumed call of handle_command() with the record of
\* measure_command_latency(): its sequence_id is
\* self.sequence_counters['command'], which no statement increments
command_measured(h, outcome) ==
  /\ handle_command_resume(h, outcome)
  /\ recorded' =
       IF enable_latency_measurement /\ handlers[h].has_timestamp
         THEN Append(recorded,
                     [measurement_type |-> "command",
                      sequence_id |-> sequence_counters["command"],
                      acknowledges |-> handlers[h].command_id])
         ELSE recorded
  /\ UNCHANGED besideRecorded

\* ------------------------------------------------------------ WebRTC offers
\* the 'webrtc_request_offer' event handler enters
\* handle_webrtc_offer_request(data) with data.get('sessionType', 'camera')
\* = session_type: the offer is built and its emission awaited
webrtc_request_offer(session_type) ==
  /\ channel = "open"
  /\ Len(offers) < MaxOffers
  /\ offers' = Append(offers, [session_type |-> session_type, pc |-> "offer",
                               frame_count |-> 0])
  /\ UNCHANGED <<sessionVars, cmdVars, besideOffers>>

\* handle_webrtc_offer_request() resumes after the emission of webrtc_offer
\* (outside every try block: an error ends the handler): for a camera
\* session asyncio.create_task(self.mock_camera_stream(session_id)) starts
\* the stream, and the task is stored nowhere
handle_webrtc_offer_request(k, outcome) ==
  /\ k \in 1..Len(offers)
  /\ offers[k].pc = "offer"
  /\ outcome \in BareOutcomes
  /\ offers' = [offers EXCEPT ![k].pc =
                  IF outcome = "raise" THEN "raised"
                  ELSE IF offers[k].session_type = "camera" THEN "stream"
                  ELSE "returned"]
  /\ UNCHANGED <<sessionVars, cmdVars, besideOffers>>

\* while self.registered and self.precision_landing_active or
\*       frame_count < 100
mock_stream_continues(frame_count) ==
  (registered /\ precision_landing_active) \/ frame_count < mock_frames

\* one pass of mock_camera_stream's loop: the loop test, a frame is built,
\* frame_count += 1 and the task sleeps 1/30 s (a count past 100 is kept at
\* 100, the test does not tell them apart)
mock_camera_stream(k) ==
  /\ k \in 1..Len(offers)
  /\ offers[k].pc = "stream"
  /\ offers' =
       IF mock_stream_continues(offers[k].frame_count)
         THEN [offers EXCEPT ![k].frame_count =
                 IF @ < mock_frames THEN @ + 1 ELSE @]
         ELSE [offers EXCEPT ![k].pc = "done"]
  /\ UNCHANGED <<sessionVars, cmdVars, besideOffers>>

\* ------------------------------------------------------ start_drone_batch()
\* the entries of fleet_log: a batch whose run() tasks were created, a sleep
\* between the connections of a batch, a sleep before the next batch
Batch(ds) == [kind |-> "batch", drones |-> ds]
Pause == [kind |-> "pause", drones |-> <<>>]
Delay == [kind |-> "delay", drones |-> <<>>]

\* drones[i:i + batch_size], the drones being numbered from 1
slice(i, size, n) ==
  LET last == IF i + size < n THEN i + size ELSE n
  IN [k \in 1..(last - i) |-> i + k]

\* a start that sleeps after every batch
more_batches_always(i, size, n) == TRUE

\* if i + batch_size < len(drones)
more_batches(i, size, n) == i + size < n

\* start_drone_batch() after the sleeps inside the batch at i: the sleep
\* before the next batch begins, or the loop goes on at once (head) to
\* i + batch_size, where range(0, len(drones), batch_size) ends and the call
\* returns
after_batch(i, log) ==
  IF more_batches(i, batch_size, num_drones)
    THEN /\ start_pc' = "delay"
         /\ fleet_log' = Append(log, Delay)
         /\ batch_i' = i
    ELSE IF i + batch_size < num_drones
           THEN /\ start_pc' = "head"
                /\ fleet_log' = log
                /\ batch_i' = i
           ELSE /\ start_pc' = "returned"
                /\ fleet_log' = log
                /\ batch_i' = i

\* start_drone_batch() from the head of its loop at i up to its next
\* suspension: the run() tasks of the batch are created; MultiDroneSimulator
\* then sleeps 0.5 s once for every task of the batch but the first
batch_from(i) ==
  LET batch == slice(i, batch_size, num_drones)
      log == Append(fleet_log, Batch(batch))
  IN IF simulator = MultiDroneSimulator /\ Len(batch) > 1
       THEN /\ start_pc' = "pause"
            /\ batch_j' = 1
            /\ batch_i' = i
            /\ fleet_log' = Append(log, Pause)
       ELSE /\ batch_j' = 0
            /\ after_batch(i, log)

\* start_drone_batch(self.drones, batch_size) is called: with no drone the
\* loop is not entered and the return statement raises UnboundLocalError
start_drone_batch ==
  /\ simulator \in Simulators
  /\ start_pc = "idle"
  /\ IF num_drones = 0
       THEN /\ start_pc' = "raised"
            /\ UNCHANGED <<batch_i, batch_j, fleet_log>>
       ELSE batch_from(0)
  /\ UNCHANGED <<sessionVars, cmdVars, besideFleet, simulator, num_drones,
                 batch_size, cleanupVars>>

\* a sleep between the connections of a batch is over
pause_over ==
  /\ start_pc = "pause"
  /\ IF batch_j + 1 < Len(slice(batch_i, batch_size, num_drones))
       THEN /\ batch_j' = batch_j + 1
            /\ fleet_log' = Append(fleet_log, Pause)
            /\ UNCHANGED <<start_pc, batch_i>>
       ELSE /\ batch_j' = 0
            /\ after_batch(batch_i, fleet_log)
  /\ UNCHANGED <<sessionVars, cmdVars, besideFleet, simulator, num_drones,
                 batch_size, cleanupVars>>

\* the sleep before the next batch is over: the loop goes on
delay_over ==
  /\ start_pc \in {"delay", "head"}
  /\ IF batch_i + batch_size < num_drones
       THEN batch_from(batch_i + batch_size)
       ELSE /\ start_pc' = "returned"
            /\ UNCHANGED <<batch_i, batch_j, fleet_log>>
  /\ UNCHANGED <<sessionVars, cmdVars, besideFleet, simulator, num_drones,
                 batch_size, cleanupVars>>

\* start_drone_batch() is cancelled, or an error is raised into it, while it
\* is suspended in one of its sleeps: the call ends there, the run() tasks
\* it created go on, and the finally of the caller runs cleanup()
start_interrupted ==
  /\ start_pc \in {"pause", "delay"}
  /\ start_pc' = "cancelled"
  /\ UNCHANGED <<sessionVars, cmdVars, besideFleet, simulator, num_drones,
                 batch_size, batch_i, batch_j, fleet_log, cleanupVars>>

\* ---------------------------------------------------------------- cleanup()
\* the drones whose run() task was created
Started ==
  {d \in 1..num_drones :
     \E k \in 1..Len(fleet_log) :
       \E x \in 1..Len(fleet_log[k].drones) : fleet_log[k].drones[x] = d}

\* a disconnect() task that is over: disconnect() returned, or logged the
\* error of sio.disconnect() in its except clause and returned
Finished == {"returned", "failed"}

\* the 'registration_success' handler of drone d, seen from the fleet
drone_registration_success(d) ==
  /\ d \in Started
  /\ disconnects[d] \in {"none", "created"}
  /\ ~drone_registered[d]
  /\ drone_registered' = [drone_registered EXCEPT ![d] = TRUE]
  /\ UNCHANGED <<sessionVars, cmdVars, besideFleet, batchVars, cleanup_pc,
                 cleanup_tasks, disconnects>>

\* the 'disconnect' handler of drone d after a channel loss
drone_socket_disconnect(d) ==
  /\ d \in Started
  /\ disconnects[d] \in {"none", "created"}
  /\ drone_registered[d]
  /\ drone_registered' = [drone_registered EXCEPT ![d] = FALSE]
  /\ UNCHANGED <<sessionVars, cmdVars, besideFleet, batchVars, cleanup_pc,
                 cleanup_tasks, disconnects>>

\* the drones cleanup()'s loop makes a disconnect() task for, in order
RECURSIVE registered_drones(_, _)
registered_drones(d, reg) ==
  IF d > Len(reg) THEN <<>>
  ELSE (IF reg[d] THEN <<d>> ELSE <<>>) \o registered_drones(d + 1, reg)

\* a gather that returns with the first task that is over
gathered_first(ts, states) ==
  \E k \in 1..Len(ts) : states[ts[k]] \in Finished

\* await asyncio.gather(*cleanup_tasks, return_exceptions=True) returns:
\* every task is over
gathered(ts, states) ==
  \A k \in 1..Len(ts) : states[ts[k]] \in Finished

\* cleanup() is called (the finally of run_simulation /
\* run_production_latency_simulation): a disconnect() task is created for
\* every drone with drone.registered; with no task it completes at once
cleanup ==
  /\ simulator \in Simulators
  /\ start_pc \in {"returned", "raised", "cancelled"}
  /\ cleanup_pc = "idle"
  /\ cleanup_tasks' = registered_drones(1, drone_registered)
  /\ disconnects' =
       [d \in 1..num_drones |->
          IF drone_registered[d] THEN "created" ELSE disconnects[d]]
  /\ cleanup_pc' = IF cleanup_tasks' = <<>> THEN "completed" ELSE "gather"
  /\ UNCHANGED <<sessionVars, cmdVars, besideFleet, batchVars,
                 drone_registered>>

\* the disconnect() task of drone d starts: its producers are cancelled and
\* it is suspended in sio.disconnect()
disconnect_starts(d) ==
  /\ d \in 1..num_drones
  /\ disconnects[d] = "created"
  /\ disconnects' = [disconnects EXCEPT ![d] = "running"]
  /\ UNCHANGED <<sessionVars, cmdVars, besideFleet, batchVars,
                 drone_registered, cleanup_pc, cleanup_tasks>>

\* sio.disconnect() of drone d returned (the 'disconnect' handler has run) or
\* raised (the except clause logs): disconnect() returns
disconnect_ends(d, ok) ==
  /\ d \in 1..num_drones
  /\ disconnects[d] = "running"
  /\ disconnects' = [disconnects EXCEPT ![d] = IF ok THEN "returned" ELSE "failed"]
  /\ drone_registered' =
       IF ok THEN [drone_registered EXCEPT ![d] = FALSE] ELSE drone_registered
  /\ UNCHANGED <<sessionVars, cmdVars, besideFleet, batchVars, cleanup_pc,
                 cleanup_tasks>>

\* cleanup() resumes after its gather and completes
cleanup_completes ==
  /\ cleanup_pc = "gather"
  /\ gathered(cleanup_tasks, disconnects)
  /\ cleanup_pc' = "completed"
  /\ UNCHANGED <<sessionVars, cmdVars, besideFleet, batchVars,
                 drone_registered, cleanup_tasks, disconnects>>

Outcomes == {"ok", "raise", "dropped"}
Dues == [CameraSet -> BOOLEAN]

Next ==
  \/ ConnectCall
  \/ \E ok \in BOOLEAN : discover_server(ok)
  \/ \E ok \in BOOLEAN : register_with_server(ok)
  \/ \E ok \in BOOLEAN : sio_connect(ok)
  \/ on_connect
  \/ register_drone_call
  \/ registration_success
  \/ registration_failed
  \/ start_data_streams_call
  \/ socket_disconnect
  \/ sio_reconnected
  \/ sio_reconnect_gave_up
  \/ \E i \in 1..Len(tasks), o \in Outcomes : stream_tick(i, o)
  \/ \E i \in 1..Len(tasks) : animate_tick(i)
  \/ \E i \in 1..Len(tasks), o \in Outcomes : camera_start(i, o)
  \/ \E i \in 1..Len(tasks), o \in Outcomes : camera_start_bottom(i, o)
  \/ \E i \in 1..Len(tasks), d \in Dues, o \in Outcomes : camera_loop(i, d, o)
  \/ \E i \in 1..Len(tasks), d \in Dues, o \in Outcomes : camera_resume(i, d, o)
  \/ \E o \in Outcomes : disconnect_call(o)
  \/ \E o \in Outcomes : disconnect_resume(o)

Spec == Init /\ [][Next]_vars

\* the session's life cycle alone, with the periods of run()'s loop counted
\* and the producers left where start_data_streams() put them (no camera
\* becomes active, so disconnect() is never suspended in a stop emission)
NextWait ==
  \/ ConnectCall
  \/ \E ok \in BOOLEAN : discover_server(ok)
  \/ \E ok \in BOOLEAN : register_with_server(ok)
  \/ \E ok \in BOOLEAN : sio_connect(ok)
  \/ on_connect
  \/ register_drone_call
  \/ registration_success
  \/ registration_failed
  \/ socket_disconnect
  \/ sio_reconnected
  \/ sio_reconnect_gave_up
  \/ \E o \in Outcomes : disconnect_call(o)
  \/ run_tick

SpecWait == Init /\ [][NextWait]_vars

\* the command dispatcher of ProductionMockDrone on a channel that is opened
\* by connect() and may be lost
InitCmd == \E latency \in BOOLEAN : Constructed(ProductionMockDrone, latency)

NextCmd ==
  \/ ConnectCall
  \/ \E ok \in BOOLEAN : discover_server(ok)
  \/ \E ok \in BOOLEAN : register_with_server(ok)
  \/ \E ok \in BOOLEAN : sio_connect(ok)
  \/ socket_disconnect
  \/ \E t \in CommandTypes : \E p \in Parameters(t), ts \in BOOLEAN :
       command_arrives(t, p, ts)
  \/ \E h \in 1..Len(handlers), o \in Outcomes : command_resume(h, o)

SpecCmd == InitCmd /\ [][NextCmd]_vars

\* the precision landing of MockDrone and ProductionMockDrone on a channel
\* that is opened by connect() and may be lost
InitLand ==
  \E klass \in {MockDrone, ProductionMockDrone} : Constructed(klass, TRUE)

NextLand ==
  \/ ConnectCall
  \/ \E ok \in BOOLEAN : discover_server(ok)
  \/ \E ok \in BOOLEAN : register_with_server(ok)
  \/ \E ok \in BOOLEAN : sio_connect(ok)
  \/ socket_disconnect
  \/ \E o \in Outcomes : landing_start(o)
  \/ \E l \in 1..Len(landings) : landing_emitted(l)
  \/ \E l \in 1..Len(landings), o \in Outcomes : landing_dwelt(l, o)
  \/ \E o \in Outcomes : abort_precision_landing(o)
  \/ abort_emitted

SpecLand == InitLand /\ [][NextLand]_vars

\* the producers with their sequence counters, in a session that may lose its
\* channel and be registered again (which starts a second set of producers)
NextSeq ==
  \/ ConnectCall
  \/ \E ok \in BOOLEAN : discover_server(ok)
  \/ \E ok \in BOOLEAN : register_with_server(ok)
  \/ \E ok \in BOOLEAN : sio_connect(ok)
  \/ on_connect
  \/ registration_success
  \/ socket_disconnect
  \/ sio_reconnected
  \/ \E i \in 1..Len(tasks), o \in Outcomes : telemetry_stream(i, o)
  \/ \E i \in 1..Len(tasks), o \in Outcomes : camera_start(i, o)
  \/ \E i \in 1..Len(tasks), o \in Outcomes : camera_start_bottom(i, o)
  \/ \E i \in 1..Len(tasks), d \in Dues, o \in Outcomes :
       optimized_camera_stream(i, d, o)
  \/ \E i \in 1..Len(tasks), d \in Dues, o \in Outcomes :
       optimized_camera_stream_resume(i, d, o)

SpecSeq == Init /\ [][NextSeq]_vars

\* the pacing rule applied to the queue depths the server reports, for every
\* camera rate of FpsValues
InitInterval ==
  \E fps \in FpsValues : Configured(OptimizedProductionDrone, TRUE, fps)

NextInterval ==
  \/ ConnectCall
  \/ \E ok \in BOOLEAN : sio_connect(ok)
  \/ \E c \in CameraSet, q \in 0..MaxQueue : camera_frame_ack(c, q)
  \/ \E c \in CameraSet : calculate(c)

SpecInterval == InitInterval /\ [][NextInterval]_vars

\* the values data['queueSize'] of a camera_frame_ack may hold: the handler
\* takes what the server sent, a negative number included
QueueSizes == -1..MaxQueue

\* the pacing rule applied to any queue depth an acknowledgment may carry
NextQueue ==
  \/ ConnectCall
  \/ \E ok \in BOOLEAN : sio_connect(ok)
  \/ \E c \in CameraSet, q \in QueueSizes : camera_frame_ack(c, q)
  \/ \E c \in CameraSet : calculate(c)

SpecQueue == InitInterval /\ [][NextQueue]_vars

\* the data a camera_frame_ack may come with: a camera the agent has or
\* one it has not, with or without a queue size and a compression ratio
CameraAckData ==
  {d \in SUBSET (({"camera"} \X {"front", "bottom", "left"})
                   \cup ({"queueSize"} \X {5})
                   \cup ({"compressionRatio"} \X {2})) :
     /\ \E kv \in d : kv[1] = "camera"
     /\ \A kv, lm \in d : kv[1] = lm[1] => kv = lm}

\* the camera data names sent a frame at this reading of the clock: the
\* acknowledgment of a frame arrives before the clock has moved on
AckedAtOnce(data) ==
  \A c \in CameraSet :
    get(data, "camera", "None") = c => last_sent[c] = now

\* the camera loop at 10 frames per second with the clock, the counters and
\* the metrics, while acknowledgments of the frames sent and
\* acknowledgments of an unknown camera arrive; every sleep of the loop
\* takes its 10 ms exactly
NextCameras ==
  \/ ConnectCall
  \/ sio_connect(TRUE)
  \/ on_connect
  \/ registration_success
  \/ \E i \in 1..Len(tasks), o \in Outcomes : camera_start(i, o)
  \/ \E i \in 1..Len(tasks), o \in Outcomes : camera_start_bottom(i, o)
  \/ \E i \in 1..Len(tasks), d \in {0, busy_wait}, o \in Outcomes :
       paced_pass(i, d, o)
  \/ \E i \in 1..Len(tasks), o \in Outcomes : paced_rest(i, o)
  \/ \E data \in CameraAckData : AckedAtOnce(data) /\ on_camera_frame_ack(data)

SpecCameras ==
  Configured(OptimizedProductionDrone, TRUE, 10) /\ [][NextCameras]_vars

\* a MockDrone whose session is set up without a failure, its producers,
\* the WebRTC offers the server asks for, and disconnect()
NextOffers ==
  \/ ConnectCall
  \/ discover_server(TRUE)
  \/ register_with_server(TRUE)
  \/ sio_connect(TRUE)
  \/ on_connect
  \/ registration_success
  \/ \E i \in 1..Len(tasks), o \in Outcomes : stream_tick(i, o)
  \/ \E i \in 1..Len(tasks) : animate_tick(i)
  \/ \E t \in {"camera", "data"} : webrtc_request_offer(t)
  \/ \E k \in 1..Len(offers), o \in Outcomes : handle_webrtc_offer_request(k, o)
  \/ \E k \in 1..Len(offers) : mock_camera_stream(k)
  \/ \E o \in Outcomes : disconnect_call(o)

SpecOffers == Constructed(MockDrone, TRUE) /\ [][NextOffers]_vars

\* the camera loop with the clock, the queue depths staying 0, for every
\* camera rate of FpsValues
NextPace ==
  \/ ConnectCall
  \/ \E ok \in BOOLEAN : sio_connect(ok)
  \/ on_connect
  \/ registration_success
  \/ \E i \in 1..Len(tasks), o \in Outcomes : camera_start(i, o)
  \/ \E i \in 1..Len(tasks), o \in Outcomes : camera_start_bottom(i, o)
  \/ \E i \in 1..Len(tasks), d \in 0..MaxSleep, o \in Outcomes :
       timed_pass(i, d, o)
  \/ \E i \in 1..Len(tasks), o \in Outcomes : timed_rest(i, o)

SpecPace == InitInterval /\ [][NextPace]_vars

\* the camera loops of an agent whose producers were started twice, with
\* the clock, at 10 frames per second, the queue depths staying 0 and every
\* sleep of the loops taking its 10 ms exactly
InitTwice ==
  /\ Fields(OptimizedProductionDrone, TRUE, 10)
  /\ StartedTwice
  /\ Orchestrated("none", 0, 1)

NextTwice ==
  \/ \E i \in 1..Len(tasks), o \in Outcomes : camera_start(i, o)
  \/ \E i \in 1..Len(tasks), o \in Outcomes : camera_start_bottom(i, o)
  \/ \E i \in 1..Len(tasks), d \in {0, busy_wait}, o \in Outcomes :
       timed_pass(i, d, o)
  \/ \E i \in 1..Len(tasks), o \in Outcomes : timed_rest(i, o)

SpecTwice == InitTwice /\ [][NextTwice]_vars

\* the frame encoder on the frames of both cameras, in both kinds of build
NextFrame ==
  \E c \in CameraSet, t \in Timestamps, b \in BOOLEAN : encode_frame(c, t, b)

SpecFrame ==
  Configured(OptimizedProductionDrone, TRUE, 30) /\ [][NextFrame]_vars

\* the frame encoders of OptimizedProductionDrone and ProductionWebRTCDrone
\* on the frames of both cameras
InitEncoders ==
  \E klass \in {OptimizedProductionDrone, ProductionWebRTCDrone} :
    Configured(klass, TRUE, 30)

NextEncoders ==
  \/ \E c \in CameraSet, t \in Timestamps, b \in BOOLEAN :
       cls = OptimizedProductionDrone /\ encode_frame(c, t, b)
  \/ \E c \in CameraSet, t \in Timestamps : encode_frame_webrtc(c, t)

SpecEncoders == InitEncoders /\ [][NextEncoders]_vars

\* the statistics of the measurements of two types, with latencies that
\* repeat
NextStats ==
  \/ ConnectCall
  \/ \E ok \in BOOLEAN : discover_server(ok)
  \/ \E ok \in BOOLEAN : register_with_server(ok)
  \/ \E ok \in BOOLEAN : sio_connect(ok)
  \/ \E c \in Categories, l \in {10, 20} : measure_latency(c, l)
  \/ \E r95, r99 \in Roundings : get_latency_statistics(r95, r99)
  \/ \E r95, r99 \in Roundings : calculate_production_fleet_statistics(r95, r99)

SpecStats == InitCmd /\ [][NextStats]_vars

\* percentile() on the telemetry latencies
NextPercentile ==
  \/ ConnectCall
  \/ \E ok \in BOOLEAN : discover_server(ok)
  \/ \E ok \in BOOLEAN : register_with_server(ok)
  \/ \E ok \in BOOLEAN : sio_connect(ok)
  \/ \E l \in Latencies : measure_latency("telemetry", l)
  \/ \E p \in Percentiles, r \in Roundings : percentile_call(p, r)

SpecPercentile == InitCmd /\ [][NextPercentile]_vars


\* the acknowledgment handlers of ProductionMockDrone and
\* ProductionMockDroneWithCamera, with and without latency measurement
InitAck ==
  \E klass \in {ProductionMockDrone, ProductionMockDroneWithCamera},
     latency \in BOOLEAN : Constructed(klass, latency)

NextAck ==
  \/ ConnectCall
  \/ \E ok \in BOOLEAN : discover_server(ok)
  \/ \E ok \in BOOLEAN : register_with_server(ok)
  \/ \E ok \in BOOLEAN : sio_connect(ok)
  \/ socket_disconnect
  \/ \E e \in AckEvents, d \in AckData : ack_event(e, d)

SpecAck == InitAck /\ [][NextAck]_vars

\* one session of OptimizedProductionDrone with the frames its camera tasks
\* emit, ended by disconnect()
NextStop ==
  \/ n_connect = 0 /\ ConnectCall
  \/ sio_connect(TRUE)
  \/ on_connect
  \/ registration_success
  \/ \E i \in 1..Len(tasks), o \in Outcomes : camera_start(i, o)
  \/ \E i \in 1..Len(tasks), o \in Outcomes : camera_start_bottom(i, o)
  \/ \E i \in 1..Len(tasks), d \in Dues, o \in Outcomes :
       optimized_camera_stream(i, d, o)
  \/ \E i \in 1..Len(tasks), d \in Dues, o \in Outcomes :
       optimized_camera_stream_resume(i, d, o)
  \/ \E o \in Outcomes : disconnect_call(o)
  \/ \E o \in Outcomes : disconnect_resume(o)

SpecStop == Constructed(OptimizedProductionDrone, TRUE) /\ [][NextStop]_vars

\* ProductionWebRTCDrone with config.enable_webrtc, registered by a server
\* that does or does not support WebRTC, its peer connection set up and
\* recovered
NextWebRTC ==
  \/ ConnectCall
  \/ \E ok \in BOOLEAN : sio_connect(ok)
  \/ on_connect
  \/ \E supported \in BOOLEAN, o \in SetupOutcomes :
       registration_success_webrtc(supported, o)
  \/ \E i \in 1..Len(tasks), o \in Outcomes : stream_tick(i, o)
  \/ \E i \in 1..Len(tasks) : animate_tick(i)
  \/ \E state \in {"connected", "failed"}, o \in SetupOutcomes :
       webrtc_recovery(state, o)
  \/ socket_disconnect_webrtc
  \/ sio_reconnected

SpecWebRTC == Constructed(ProductionWebRTCDrone, TRUE) /\ [][NextWebRTC]_vars

\* the producers of ProductionMockDrone with their counters, the
\* acknowledgments of their emissions and arm commands, with the sequence
\* id each measurement records
NextMeasured ==
  \/ ConnectCall
  \/ discover_server(TRUE)
  \/ register_with_server(TRUE)
  \/ sio_connect(TRUE)
  \/ on_connect
  \/ registration_success
  \/ \E i \in 1..Len(tasks), o \in Outcomes : telemetry_stream(i, o)
  \/ \E kind \in SequencedKinds : telemetry_ack(kind)
  \/ \E p \in Parameters("arm"), ts \in BOOLEAN : command_arrives("arm", p, ts)
  \/ \E h \in 1..Len(handlers), o \in Outcomes : command_measured(h, o)

SpecMeasured == Constructed(ProductionMockDrone, TRUE) /\ [][NextMeasured]_vars


\* start_drone_batch() of both orchestrators, for every fleet of up to
\* MaxDrones drones and every batch size up to MaxBatch (the agent
\* variables are those of a drone that was constructed and not yet run)
InitBatch ==
  \E sim \in Simulators, drones \in 0..MaxDrones, size \in 1..MaxBatch :
    /\ Agent(IF sim = MultiDroneSimulator
               THEN MockDrone ELSE ProductionMockDrone, TRUE, 30)
    /\ Orchestrated(sim, drones, size)

NextBatch ==
  \/ start_drone_batch
  \/ pause_over
  \/ delay_over

SpecBatch == InitBatch /\ [][NextBatch]_vars


\* a fleet of up to MaxFleet drones that is started in batches of 3 (the
\* batch_size both orchestrators pass), whose drones register and lose their
\* channel, and that is cleaned up once
InitCleanup ==
  \E sim \in Simulators, drones \in 0..MaxFleet :
    /\ Agent(IF sim = MultiDroneSimulator
               THEN MockDrone ELSE ProductionMockDrone, TRUE, 30)
    /\ Orchestrated(sim, drones, 3)

NextCleanup ==
  \/ start_drone_batch
  \/ pause_over
  \/ delay_over
  \/ \E d \in 1..num_drones : drone_registration_success(d)
  \/ \E d \in 1..num_drones : drone_socket_disconnect(d)
  \/ cleanup
  \/ \E d \in 1..num_drones : disconnect_starts(d)
  \/ \E d \in 1..num_drones, ok \in BOOLEAN : disconnect_ends(d, ok)
  \/ cleanup_completes

SpecCleanup == InitCleanup /\ [][NextCleanup]_vars

\* the same fleet, whose start may be cancelled or fail in one of its sleeps
NextInterrupt ==
  \/ start_drone_batch
  \/ pause_over
  \/ delay_over
  \/ start_interrupted
  \/ \E d \in 1..num_drones : drone_registration_success(d)
  \/ \E d \in 1..num_drones : drone_socket_disconnect(d)
  \/ cleanup
  \/ \E d \in 1..num_drones : disconnect_starts(d)
  \/ \E d \in 1..num_drones, ok \in BOOLEAN : disconnect_ends(d, ok)
  \/ cleanup_completes

SpecInterrupt == InitCleanup /\ [][NextInterrupt]_vars

\* ================================================================ properties
\* the agent is Streaming: registered, with producers running
Streaming == registered /\ LiveTasks # {}

\* C1: a registration_failed event received while the agent waits for the
\* acknowledgment never takes it to Streaming: registered stays false and
\* the event starts no producer
C1_RejectionNeverStreams ==
  [][(registration_failed /\ AwaitingAck)
       => (~registered' /\ tasks' = tasks)]_vars

\* the first registration was emitted by the 'connect' handler and rejected:
\* the agent is connected, unregistered, without producers, nothing pending
C1_Rejected ==
  /\ cls = ProductionMockDrone
  /\ n_connect = 1
  /\ ConnectReturnedTrue
  /\ channel = "open"
  /\ ~connect_event
  /\ reg_inflight = 0
  /\ ~registered
  /\ tasks = <<>>

\* C2: the socket 'disconnect' event of ProductionMockDrone, received while
\* the agent is Streaming, cancels every producer task and clears the
\* session token
C2_ChannelLossClears ==
  [][(cls = ProductionMockDrone /\ Streaming /\ socket_disconnect)
       => (session_token' = None /\ LiveTasks' = {})]_vars

\* C3: registered becomes true, and producers are launched on an
\* unregistered agent, only in a step of the 'registration_success' handler:
\* neither the return of register_drone() nor start_data_streams() does it
C3_StreamingOnlyByAck ==
  [][(~registered /\ (registered' \/ Len(tasks') > Len(tasks)))
       => registration_success]_vars

\* the acknowledgment arrived: the agent is Streaming with its first
\* producer set, and no registration is pending
C3_Acknowledged ==
  /\ Streaming
  /\ reg_inflight = 0
  /\ Len(tasks) = Len(NewTasks)

\* the steps of ProductionMockDrone.connect(), in the order of its code
ConnectOrder == <<"discover", "register", "open">>

\* the current (or last) connect() call ended on a step that failed
ConnectFailed ==
  /\ conn_pc = "idle"
  /\ conn_steps # <<>>
  /\ ~conn_steps[Len(conn_steps)].ok

\* C4: ProductionMockDrone.connect() performs Discover, HTTP registration
\* and channel open in this order and stops at the first failure: a step is
\* made only after every earlier one succeeded, and after a failed call the
\* channel is closed and the agent is not Streaming
C4_ConnectInOrder ==
  cls = ProductionMockDrone =>
    /\ Len(conn_steps) <= Len(ConnectOrder)
    /\ \A i \in 1..Len(conn_steps) :
         /\ conn_steps[i].op = ConnectOrder[i]
         /\ i > 1 => conn_steps[i - 1].ok
    /\ ConnectFailed => (channel = "closed" /\ ~registered /\ ~Streaming)

\* discovery succeeded, the HTTP registration failed and connect() returned
C4_HttpRegistrationFailed ==
  /\ cls = ProductionMockDrone
  /\ conn_pc = "idle"
  /\ conn_steps = <<[op |-> "discover", ok |-> TRUE],
                    [op |-> "register", ok |-> FALSE]>>

\* the agent is Closed: no producer is left running, every camera stream that
\* was active got its stop, the channel is closed, the agent is unregistered
Closed ==
  /\ LiveTasks = {}
  /\ \A c \in CameraSet : ~camera_streams_active[c]
  /\ channel = "closed"
  /\ ~registered

\* a disconnect() call has returned and none is running
DisconnectReturned == disc_returned /\ disc_pc = "idle"

\* C5: once disconnect() has completed, the agent is Closed: producers
\* cancelled, a camera_stream_stop emitted for every active camera stream,
\* channel closed, agent no longer registered
C5_DisconnectCloses == DisconnectReturned => Closed

\* a step of a disconnect() call: its entry or its resumption
DisconnectStep ==
  \/ \E o \in Outcomes : disconnect_call(o)
  \/ \E o \in Outcomes : disconnect_resume(o)

\* C6: disconnect() is idempotent: a call made after an earlier call has
\* returned emits no further camera_stream_stop and leaves the registered
\* flag, camera_streams_active and the task list unchanged
C6_DisconnectIdempotent ==
  [][(disc_returned /\ DisconnectStep)
       => /\ stops_emitted' = stops_emitted
          /\ registered' = registered
          /\ camera_streams_active' = camera_streams_active
          /\ tasks' = tasks]_vars

\* C7: the agent does not wait for the registration acknowledgment beyond
\* the bounded wait: once max_wait periods have passed without one, it has
\* left the waiting state
C7_BoundedWait ==
  (cls = ProductionMockDrone /\ waited > max_wait) => ~AwaitingAck

\* the scheduler runs every producer task that is ready: a task sleeping
\* or suspended in an emission is resumed
ProducerStep(i) ==
  \/ \E o \in Outcomes : stream_tick(i, o)
  \/ animate_tick(i)
  \/ \E o \in Outcomes : camera_start(i, o)
  \/ \E o \in Outcomes : camera_start_bottom(i, o)
  \/ \E d \in Dues, o \in Outcomes : camera_loop(i, d, o)
  \/ \E d \in Dues, o \in Outcomes : camera_resume(i, d, o)

\* the session and its producers when nobody calls disconnect(): no task is
\* ever cancelled
NextStreams ==
  \/ ConnectCall
  \/ \E ok \in BOOLEAN : discover_server(ok)
  \/ \E ok \in BOOLEAN : register_with_server(ok)
  \/ \E ok \in BOOLEAN : sio_connect(ok)
  \/ on_connect
  \/ register_drone_call
  \/ registration_success
  \/ registration_failed
  \/ start_data_streams_call
  \/ socket_disconnect
  \/ sio_reconnected
  \/ sio_reconnect_gave_up
  \/ \E i \in 1..Len(tasks), o \in Outcomes : stream_tick(i, o)
  \/ \E i \in 1..Len(tasks) : animate_tick(i)
  \/ \E i \in 1..Len(tasks), o \in Outcomes : camera_start(i, o)
  \/ \E i \in 1..Len(tasks), o \in Outcomes : camera_start_bottom(i, o)
  \/ \E i \in 1..Len(tasks), d \in Dues, o \in Outcomes : camera_loop(i, d, o)
  \/ \E i \in 1..Len(tasks), d \in Dues, o \in Outcomes : camera_resume(i, d, o)

FairSpec ==
  Init /\ [][NextStreams]_vars /\ \A i \in 1..MaxTasks : WF_vars(ProducerStep(i))

\* C8: when the agent leaves Streaming and stays unregistered, every
\* producer stops by itself at its next loop test, without being cancelled:
\* eventually no producer task is running
C8_ProducersStop == (~registered) ~> (registered \/ LiveTasks = {})

\* the channel was lost and every producer of the session ended by itself,
\* none of them cancelled
C8_AllStopped ==
  /\ ~registered
  /\ Len(tasks) = Len(NewTasks)
  /\ \A i \in 1..Len(tasks) : tasks[i].pc = "done"
  /\ disc_pc = "idle" /\ ~disc_returned

ResponsesTo(id) ==
  {k \in 1..Len(responses) : responses[k].message.commandId = id}

KnownTypes == {"arm", "disarm", "takeoff", "land", "rtl"}

\* C11: a command of a type handle_command() does not know is accepted: the
\* call that handles it answers with status executed and result success
\* and leaves armed, flight_mode and altitude_relative (the fields of the
\* state handle_command() writes) unchanged
C11_UnknownCommandAccepted ==
  [][\A h \in 1..Len(handlers) :
       (/\ handlers[h].command_type \notin KnownTypes
        /\ handlers[h].pc = "sleeping"
        /\ handlers'[h].pc # "sleeping")
       => /\ <<armed, flight_mode, altitude_relative>>'
               = <<armed, flight_mode, altitude_relative>>
          /\ Len(responses') = Len(responses) + 1
          /\ responses'[Len(responses')].message
               = [commandId |-> handlers[h].command_id,
                  command |-> handlers[h].command_type,
                  status |-> "executed",
                  result |-> "success"]]_vars

\* a command of type foo was handled and answered on an open channel, and
\* the agent is armed in mode AUTO at altitude 100 as it was constructed
C11_FooAnswered ==
  /\ Len(handlers) = 1
  /\ handlers[1].command_type = "foo"
  /\ handlers[1].pc = "done"
  /\ Len(responses) = 1
  /\ responses[1].outcome = "ok"
  /\ armed /\ flight_mode = "AUTO" /\ altitude_relative = 100

\* the stages landing l has emitted, in the order of their emission
StagesOf(l) ==
  LET ks == {k \in 1..Len(progress) : progress[k].landing = l}
      nth[n \in 0..Cardinality(ks)] ==
        IF n = 0 THEN <<>>
        ELSE LET k == CHOOSE x \in ks :
                        Cardinality({y \in ks : y < x}) = n - 1
             IN Append(nth[n - 1], progress[k].stage)
  IN nth[Cardinality(ks)]

\* C12: a precision landing emits its progress events in the order
\* APPROACH, DESCENT, FINAL, LANDED, one per stage, and an abort takes
\* effect between stages: a landing that was running when ABORTED was
\* emitted emits no progress event of a later stage afterwards
C12_AbortBetweenStages ==
  /\ \A l \in 1..Len(landings) :
       StagesOf(l) = SubSeq(Stages, 1, Len(StagesOf(l)))
  /\ \A i, k, j \in 1..Len(progress) :
       (i < k /\ k < j /\ progress[k].stage = "ABORTED")
         => ~(progress[i].landing # 0
              /\ progress[i].landing = progress[j].landing)

\* the sequence numbers carried by stream s, in order of emission, strictly
\* increase
Increasing(s) ==
  \A a, b \in 1..Len(emitted[s]) : a < b => emitted[s][a] < emitted[s][b]

C14_AdaptiveInterval ==
  \A c \in CameraSet :
    adaptive_interval[c] # <<>> =>
      LET T == base_frame_interval
          q == adaptive_interval[c][1]
          interval == adaptive_interval[c][2]
      IN /\ q > 2 => 10 * interval = T * 15 + T * 3 * q
         /\ q = 0 => 10 * interval = T * 8
         /\ q \in {1, 2} => interval = T
         /\ q = 5 => interval = 3 * T

\* both cameras have their interval computed, the front one with a queue
\* depth of 5 and the bottom one with a queue depth of 2
C14_Backlog ==
  /\ adaptive_interval["front"] # <<>>
  /\ adaptive_interval["bottom"] # <<>>
  /\ adaptive_interval["front"][1] = 5
  /\ adaptive_interval["bottom"][1] = 2

C29_NeverBelowInterval ==
  \A c \in DOMAIN gap :
    gap[c] >= calculate_adaptive_interval(base_frame_interval,
                                          frame_queue_status[c])

\* C30: the queue depth used for pacing is a non-negative integer in every
\* reachable state: whatever queueSize a camera_frame_ack carries, the
\* stored frame_queue_status[camera] is at least 0.
C30_QueueDepthNonNegative ==
  \A c \in CameraSet : frame_queue_status[c] >= 0

\* a camera task goes into the emission of a frame of camera c
SendBegins(c) ==
  \E i \in DOMAIN tasks :
    /\ frame_of(tasks[i].pc) # c
    /\ frame_of(tasks'[i].pc) = c

\* a camera task comes back from the emission of a frame of camera c
SendEnds(c) ==
  \E i \in DOMAIN tasks :
    /\ frame_of(tasks[i].pc) = c
    /\ frame_of(tasks'[i].pc) # c

\* C31: the two cameras are paced independently: a camera_frame_ack for one
\* camera changes only that camera's q and metrics and leaves the other
\* camera's q, last-send timestamp, frame counter and metrics unchanged;
\* sending a frame of one camera leaves the other camera's last-send
\* timestamp and counter unchanged (the counter of the other camera moves
\* only where its own send begins, its timestamp only where its own send
\* ends); an ack naming an unknown camera changes nothing.
C31_CamerasIndependent ==
  [][/\ \A data \in CameraAckData :
          on_camera_frame_ack(data) =>
            /\ UNCHANGED <<last_frame_time, camera_frame_counter>>
            /\ \A d \in CameraSet \ {get(data, "camera", "None")} :
                 /\ frame_queue_status'[d] = frame_queue_status[d]
                 /\ camera_performance_metrics'[d] =
                      camera_performance_metrics[d]
            /\ get(data, "camera", "None") \notin CameraSet =>
                 UNCHANGED vars
     /\ \A c \in CameraSet : \A d \in CameraSet \ {c} :
          /\ SendBegins(c) =>
               /\ camera_frame_counter'[d] = camera_frame_counter[d]
               /\ ~SendEnds(d) =>
                    last_frame_time'[d] = last_frame_time[d]
          /\ SendEnds(c) =>
               /\ last_frame_time'[d] = last_frame_time[d]
               /\ ~SendBegins(d) =>
                    camera_frame_counter'[d] = camera_frame_counter[d]]_vars

\* the front camera was acknowledged with a queue of 5 and sent one frame,
\* the bottom camera was never acknowledged and sent its second frame later
C31_FrontSlowedAlone ==
  /\ frame_queue_status = [front |-> 5, bottom |-> 0]
  /\ camera_performance_metrics["front"].last_ack_time # 0
  /\ camera_performance_metrics["bottom"].last_ack_time = 0
  /\ camera_frame_counter = [front |-> 1, bottom |-> 2]
  /\ 0 < last_frame_time["front"]
  /\ last_frame_time["front"] < last_frame_time["bottom"]

\* C32: every task an agent spawns (the stream producers, the mock camera
\* stream started from the WebRTC offer handler) is held by a handle of the
\* agent, so that after disconnect() has completed none of them is still
\* running.
C32_NoTaskAfterShutdown ==
  DisconnectReturned =>
    /\ LiveTasks = {}
    /\ \A k \in 1..Len(offers) : offers[k].pc # "stream"

\* C33: if the batch start-up is cancelled or fails mid-batch, cleanup()
\* still covers every agent that was already started, the agents that are
\* not registered yet included: once cleanup() has completed, every started
\* agent was disconnected and none is (or becomes) registered.
C33_CleanupCoversStarted ==
  (start_pc = "cancelled" /\ cleanup_pc = "completed") =>
    \A d \in Started :
      /\ disconnects[d] \in Finished
      /\ ~drone_registered[d]

\* C34: for each category the sequence ids of the recorded measurements
\* strictly increase in recording order: a later record of a category never
\* carries a sequence id equal to or lower than an earlier one (telemetry,
\* heartbeat and command).
C34_SequenceIdsIncrease ==
  \A a, b \in 1..Len(recorded) :
    (a < b /\ recorded[a].measurement_type = recorded[b].measurement_type)
      => recorded[a].sequence_id < recorded[b].sequence_id

\* C35: the sequence id of each recorded telemetry or heartbeat measurement
\* is the number carried by the emission whose timestamp the acknowledgment
\* carries, also when further emissions were sent before it arrived.
C35_SequenceIdOfAcknowledged ==
  \A k \in 1..Len(recorded) :
    recorded[k].measurement_type \in SequencedKinds
      => recorded[k].sequence_id = recorded[k].acknowledges

\* C36: the configuration of an agent is immutable after construction: no
\* operation of the agent, the handling of a failed WebRTC setup included,
\* changes a field of it.
C36_ConfigImmutable == [][UNCHANGED configVars]_vars

\* C37: once disconnect() has emitted camera_stream_stop for a camera, no
\* further frame of that camera is emitted, in any interleaving of
\* disconnect() with the camera tasks.
C37_NoFrameAfterStop ==
  [][\A c \in CameraSet : stops_emitted[c] > 0 => emitted'[c] = emitted[c]]_vars

\* C38: the frame encoder always produces a header followed by a payload:
\* every header value fits its field (the ms timestamp a 4-byte unsigned
\* field, the frame number and the sequence 2-byte unsigned fields), so the
\* fallback frame (the empty frame in ProductionWebRTCDrone) is never
\* produced.
C38_NeverFallback == frame.camera # "none" => frame.header # <<>>

\* C39: in MockDrone, once abort_precision_landing() has interrupted an
\* active landing and returned, the flight mode is LOITER, and it still is
\* once the interrupted routine has finished (no stage was emitted after the
\* abort, so no other landing has run since).
C39_LoiterAfterAbort ==
  (/\ cls = MockDrone
   /\ progress # <<>>
   /\ progress[Len(progress)].stage = "ABORTED"
   /\ progress[Len(progress)].outcome = "ok"
   /\ aborting = 0
   /\ \A l \in 1..Len(landings) : landings[l].pc \in {"done", "failed"})
    => flight_mode = "LOITER"

C16_KeyFrameEvery30 ==
  frame.camera # "none" =>
    frame.frame_type = (IF frame.frame_number % 30 = 0 THEN "I" ELSE "P")

\* C17: the header of a binary frame is exactly 32 bytes long, its eight
\* fields being packed in wire order.
C17_HeaderIs32Bytes ==
  frame.camera # "none" =>
    /\ Len(frame.header) = Len(header_format)
    /\ Sum(frame.header) = 32

\* C18: for every non-empty set of latencies of a category the statistics
\* satisfy min_ms <= median_ms <= p95_ms <= p99_ms <= max_ms.
C18_Ordered ==
  stats.by = "drone" =>
    \A type \in DOMAIN stats.value :
      LET s == stats.value[type]
      IN /\ Leq(s.min_ms, s.median_ms)
         /\ Leq(s.median_ms, s.p95_ms)
         /\ Leq(s.p95_ms, s.p99_ms)
         /\ Leq(s.p99_ms, s.max_ms)

\* the order statistic of data at rank k, counted from 0: the value with at
\* most k values of data below it and more than k values not above it
OrderStatistic(data, k) ==
  CHOOSE v \in {data[i] : i \in 1..Len(data)} :
    /\ Cardinality({i \in 1..Len(data) : data[i] < v}) <= k
    /\ Cardinality({i \in 1..Len(data) : data[i] <= v}) > k

\* the linear interpolation between the floor and ceiling order statistics
\* at index (n - 1) p / 100, weighted by the fractional part of the index,
\* in hundredths
Interpolated(data, p) ==
  LET index == (Len(data) - 1) * p
      fraction == index % 100
  IN OrderStatistic(data, index \div 100) * (100 - fraction)
       + OrderStatistic(data, (index + 99) \div 100) * fraction

\* C19: percentile(data, p) equals the linear interpolation between the
\* floor and ceiling order statistics at index (n - 1) p / 100, for every
\* non-empty data set and every p in [0, 100], exactly.
C19_ExactInterpolation ==
  (pct.value # <<>> /\ pct.data # <<>>) =>
    pct.value = <<Interpolated(pct.data, pct.p), 0>>

\* C19 as the code keeps it: percentile(data, p) equals that interpolation
\* up to the rounding of the floating-point sum, and exactly where the
\* index is a whole number; a single-element set yields its element for
\* every p; [10, 20, 30, 40, 1000] yields 30 at p = 50 and 808 up to
\* rounding at p = 95.
C19_InterpolationUpToRounding ==
  (pct.value # <<>> /\ pct.data # <<>>) =>
    /\ pct.value[1] = Interpolated(pct.data, pct.p)
    /\ ((Len(pct.data) - 1) * pct.p) % 100 = 0 => pct.value[2] = 0
    /\ Len(pct.data) = 1 => pct.value = Exact(pct.data[1])
    /\ sorted(pct.data) = <<10, 20, 30, 40, 1000>> =>
         /\ pct.p = 50 => pct.value = Exact(30)
         /\ pct.p = 95 => pct.value[1] = 100 * 808

\* percentile([10, 20, 30, 40, 1000], 95), recorded in another order, came
\* out one rounding below 808
C19_ScenarioB ==
  /\ pct.data = <<1000, 10, 40, 20, 30>>
  /\ pct.p = 95
  /\ pct.value = <<100 * 808, -1>>

\* the categories with no measurement
Unmeasured ==
  {type \in Categories : latencies_of(latency_measurements, type) = <<>>}

C21_NoTimestampNoSample ==
  [][\A e \in AckEvents, d \in AckData :
       (acks' = Append(acks, [event |-> e, data |-> d])
        /\ ~\E kv \in d : kv[1] = timestamp_field(e))
       => latency_measurements' = latency_measurements]_vars

\* acknowledgments without their field were handled, one of them carrying
\* the field of another event, and an acknowledgment with its field was
\* measured
C21_FieldMissing ==
  /\ enable_latency_measurement
  /\ \E k \in 1..Len(acks) :
       /\ acks[k].event = "heartbeat_ack"
       /\ \E kv \in acks[k].data : kv[1] = "timestamp"
       /\ ~\E kv \in acks[k].data : kv[1] = "serverTimestamp"
  /\ Len(latency_measurements) = 1
  /\ Len(acks) = 2

\* fleet_log without the sleeps between the connections of a batch
BatchesAndDelays ==
  LET kept(e) == e.kind # "pause" IN SelectSeq(fleet_log, kept)

\* ceil(m / b)
CeilDiv(m, b) == (m + b - 1) \div b

\* C22: start_drone_batch with M >= 1 agents and batch size B has started,
\* when it returns, every agent exactly once in ceil(M/B) consecutive batches
\* of B agents (the last one possibly smaller), with an inter-batch delay
\* between two batches and none after the last: ceil(M/B) - 1 delays
C22_BatchesAndDelays ==
  (start_pc = "returned" /\ num_drones >= 1) =>
    LET n == CeilDiv(num_drones, batch_size)
        L == BatchesAndDelays
    IN /\ Len(L) = 2 * n - 1
       /\ \A k \in 1..n :
            LET first == (k - 1) * batch_size
                size == IF k < n THEN batch_size ELSE num_drones - first
            IN L[2 * k - 1] = Batch([d \in 1..size |-> first + d])
       /\ \A k \in 1..(n - 1) : L[2 * k] = Delay
       /\ Cardinality({x \in 1..Len(L) : L[x] = Delay}) = n - 1

\* scenario D: 7 agents with B = 3 were started as (3, 3, 1) with 2 delays
C22_ScenarioD ==
  /\ start_pc = "returned"
  /\ num_drones = 7
  /\ batch_size = 3
  /\ BatchesAndDelays =
       <<Batch(<<1, 2, 3>>), Delay, Batch(<<4, 5, 6>>), Delay, Batch(<<7>>)>>

\* C23: cleanup() creates a disconnect() task for every agent that is
\* registered when it is called, and completes only after all these tasks
\* are over, whether their sio.disconnect() returned or raised
C23_CleanupWaitsForAll ==
  /\ [](cleanup_pc = "completed" =>
          \A k \in 1..Len(cleanup_tasks) :
            disconnects[cleanup_tasks[k]] \in {"returned", "failed"})
  /\ [][(cleanup_pc = "idle" /\ cleanup_pc' # "idle") =>
          \A d \in 1..num_drones :
            drone_registered[d] <=>
              (/\ \E k \in 1..Len(cleanup_tasks') : cleanup_tasks'[k] = d
               /\ disconnects'[d] = "created")]_vars

\* cleanup() has completed after three disconnects, one of which failed
C23_CompletedDespiteFailure ==
  /\ cleanup_pc = "completed"
  /\ Len(cleanup_tasks) = 3
  /\ \E d \in 1..num_drones : disconnects[d] = "failed"
  /\ \E d \in 1..num_drones : disconnects[d] = "returned"

\* the live producer tasks of a stream type
Producers(kind) == {i \in LiveTasks : tasks[i].kind = kind}

\* the stream types of an agent: telemetry, heartbeat, the MAVROS log and
\* the camera
StreamTypes == {"telemetry", "heartbeat", "mavros", "camera"}

\* C24: at any time at most one producer task per stream type is live
C24_OneProducerPerStream ==
  \A kind \in StreamTypes : Cardinality(Producers(kind)) <= 1

\* C25: a StreamHandle (a live producer task of self.tasks) exists if and
\* only if the agent is registered
C25_HandleIffStreaming == (LiveTasks # {}) <=> registered

\* C26: no periodic stream payload is delivered to the channel while the
\* agent is not registered (the log of carried sequence numbers grows only
\* in steps taken by a registered agent)
C26_NoPayloadUnlessStreaming ==
  [][emitted' # emitted => registered]_vars

\* register_with_server() returned True in the current connect() call
HttpRegistered ==
  \E k \in 1..Len(conn_steps) : conn_steps[k] = [op |-> "register", ok |-> TRUE]

\* C27: an agent holds a session token if and only if HTTP registration
\* succeeded in its current session: a successful register_with_server()
\* leaves a token, a token is held only after one, none is held once the
\* session has ended (channel lost, disconnect() returned), and no agent is
\* registered without a token
C27_TokenIffHttpRegistered ==
  /\ (HttpRegistered /\ ~disc_returned /\ ~token_lost)
       => session_token # None
  /\ session_token # None => HttpRegistered
  /\ (disc_returned \/ will_reconnect) => session_token = None
  /\ registered => session_token # None

\* C28: after a channel loss the agent is registered again only after a
\* fresh HTTP registration has stored a session token, never with what
\* self.session_token held when the channel was lost
C28_FreshTokenAfterLoss == registered => ~token_lost

====
